---- MODULE Spec2Model ----
(***************************************************************************)
(* A model of restfulchemy's declarative update engine                     *)
(* (src/restfulchemy/__init__.py): the classifiers of path segments, the   *)
(* whitelist evaluator, the update tree builder and the stack driven walk  *)
(* of _set_record_attrs over a small mapped object graph.                  *)
(*                                                                         *)
(* Python strings are TLA+ strings; a Python dict is a function; a value   *)
(* of an update tree is tagged: [t |-> "val", v |-> s] for a raw value and *)
(* [t |-> "dict", d |-> f] for a nested dict.                              *)
(***************************************************************************)
EXTENDS Integers, Sequences, FiniteSets, TLC

VARIABLES
    params,            \* the flat update map, an insertion ordered dict:
                       \* a sequence of <<key, value>> pairs
    whitelist,         \* [t |-> "None"] or [t |-> "list", s |-> set of names]
    add_to_session,    \* BOOLEAN argument of update_resource
    stack_size_limit,  \* [t |-> "None"] or [t |-> "int", n |-> limit]
    validation_mode,   \* BOOLEAN argument of update_resource
    entry,             \* "update" (update_resource) or "create"
    instance,          \* object id of the root record (0 before it exists)
    pc,                \* position of the run
    update_stack,      \* _set_record_attrs: update_stack
    key_stack,         \* _set_record_attrs: key_stack
    c_key_stack,       \* _set_record_attrs: c_key_stack
    attr_stack,        \* _set_record_attrs: attr_stack
    error_dict,        \* _set_record_attrs: error_dict
    heap,              \* the records of the object graph, by object id
    session,           \* the objects handed to db_session.add, in order
    exc,               \* what the run raised: NoneVal, a message, an error map
    return_value,      \* what the call returned: NoneVal for None, or the
                       \* root record
    processed,         \* history: full path of every single-key node handled
    probe,             \* input of one application of a pure function
    probe_out          \* its result

vars == <<params, whitelist, add_to_session, stack_size_limit,
          validation_mode, entry, instance, pc, update_stack, key_stack,
          c_key_stack, attr_stack, error_dict, heap, session, exc,
          return_value, processed, probe, probe_out>>

walk_vars == <<params, whitelist, add_to_session, stack_size_limit,
               validation_mode, entry, instance, pc, update_stack,
               key_stack, c_key_stack, attr_stack, error_dict, heap, session,
               exc, return_value, processed>>

(***************************************************************************)
(* Bounds of the model.                                                    *)
(***************************************************************************)
MaxKeys == 2        \* keys of a flat update map given to the walk
MaxSplitKeys == 3   \* keys of a flat map given to _split_dict_params alone
MaxSuffix == 1      \* characters appended to a reserved prefix (classifiers)
MaxExtra == 1       \* entries added to a whitelist (monotonicity)
MaxLimit == 3       \* largest stack_size_limit tried
MaxEntries == 1     \* entries of a whitelist asked for a path
MaxIdBody == 4      \* characters after the prefix of an identity token
MaxIdFields == 2    \* fields of an encoded identity
MaxPageNumber == 2  \* largest page, offset, limit and page size tried
MaxRecords == 3     \* records matched by the query of get_collection

(***************************************************************************)
(* Python string operations.                                               *)
(***************************************************************************)
Chr(s, i) == SubSeq(s, i, i)

StartsWith(s, p) == Len(s) >= Len(p) /\ SubSeq(s, 1, Len(p)) = p

\* the characters the model uses, in code point order
CharOrder == "$-.0123456789:=ABCDEFGHIJKLMNOPQRSTUVWXYZ_abcdefghijklmnopqrstuvwxyz~"

Ord(c) == CHOOSE i \in 1..Len(CharOrder) : Chr(CharOrder, i) = c

\* a < b for Python strings (code point order): decided by the first
\* position where they differ, or by the lengths when there is none
StrLess(a, b) ==
    LET both == IF Len(a) < Len(b) THEN Len(a) ELSE Len(b)
        differ == { i \in 1..both : Chr(a, i) # Chr(b, i) }
    IN IF differ = {} THEN Len(a) < Len(b)
       ELSE LET d == CHOOSE i \in differ : \A k \in differ : i <= k
            IN Ord(Chr(a, d)) < Ord(Chr(b, d))

\* s.split(sep), sep one character: the pieces between the separators
Split(s, sep) ==
    LET at == { i \in 1..Len(s) : Chr(s, i) = sep }
        n == Cardinality(at)
        cut == [k \in 0..(n + 1) |->
                   IF k = 0 THEN 0
                   ELSE IF k = n + 1 THEN Len(s) + 1
                   ELSE CHOOSE p \in at :
                            Cardinality({ q \in at : q < p }) = k - 1]
    IN [k \in 1..(n + 1) |-> SubSeq(s, cut[k - 1] + 1, cut[k] - 1)]

RECURSIVE Join(_, _)
\* sep.join(names)
Join(names, sep) ==
    IF Len(names) = 0 THEN ""
    ELSE IF Len(names) = 1 THEN names[1]
    ELSE names[1] \o sep \o Join(Tail(names), sep)

RECURSIVE ReplaceFrom(_, _, _, _)
\* the rest of s from position i on, at being where old occurs in s
ReplaceFrom(s, old, new, i) ==
    LET at == { p \in i..(Len(s) - Len(old) + 1) :
                  SubSeq(s, p, p + Len(old) - 1) = old }
    IN IF at = {} THEN SubSeq(s, i, Len(s))
       ELSE LET p == CHOOSE x \in at : \A y \in at : x <= y
            IN SubSeq(s, i, p - 1) \o new
               \o ReplaceFrom(s, old, new, p + Len(old))

\* s.replace(old, new), old not empty
Replace(s, old, new) == ReplaceFrom(s, old, new, 1)

RECURSIVE SortedSeq(_)
\* sorted(S) for a set of strings
SortedSeq(S) ==
    IF S = {} THEN <<>>
    ELSE LET m == CHOOSE x \in S : \A y \in S \ {x} : StrLess(x, y)
         IN <<m>> \o SortedSeq(S \ {m})

Last(s) == s[Len(s)]
Front(s) == SubSeq(s, 1, Len(s) - 1)

(***************************************************************************)
(* Tagged values.                                                          *)
(***************************************************************************)
NoneVal == [t |-> "None"]
Val(s) == [t |-> "val", v |-> s]
Dict(f) == [t |-> "dict", d |-> f]
EmptyDict == Dict(<<>>)
IsDict(x) == x.t = "dict"

(***************************************************************************)
(* Path classifier.                                                        *)
(***************************************************************************)
_is_add_key(key) == key \in {"$add", "_add_"}

_is_remove_key(key) == key \in {"$remove", "_remove_"}

_is_set_key(key) == key \in {"$set", "_set_"}

_is_new_key(key) == StartsWith(key, "$new") \/ StartsWith(key, "_new_")

\* a slip: the separator after "id" is not required
_is_id_key_no_separator(key) == StartsWith(key, "id") \/ StartsWith(key, "$id")

_is_id_key(key) == StartsWith(key, "id-") \/ StartsWith(key, "$id:")

get_full_attr_name(attr_name_stack, short_attr_name) ==
    LET attr_name == Join(attr_name_stack, ".")
    IN IF attr_name # "" THEN attr_name \o "." \o short_attr_name
       ELSE short_attr_name

\* a slip: the tokens are joined as they are
_get_whitelist_name_keeps_tokens(name_stack) == Join(name_stack, ".")

_get_whitelist_name(name_stack) ==
    Join([i \in 1..Len(name_stack) |->
             IF _is_new_key(name_stack[i]) THEN "$new"
             ELSE IF _is_id_key(name_stack[i]) THEN "$id"
             ELSE name_stack[i]], ".")

(***************************************************************************)
(* Whitelist evaluator.  verb is "" for the call without a verb.           *)
(***************************************************************************)
\* a slip: the short name, without $id and $new, is not looked up
InWhitelistFullNameOnly(whitelist_name, s, verb) ==
    \/ whitelist_name \in s
    \/ /\ verb # ""
       /\ \/ (whitelist_name \o ".$" \o verb) \in s
          \/ (whitelist_name \o "._" \o verb \o "_") \in s

\* lines 711-726: the whitelist is a list, here the set s of its entries
InWhitelist(whitelist_name, s, verb) ==
    LET short_whitelist_name ==
            Replace(Replace(whitelist_name, ".$id", ""), ".$new", "")
        money_notation == ".$" \o verb
        underscore_notation == "._" \o verb \o "_"
    IN \/ whitelist_name \in s
       \/ short_whitelist_name \in s
       \/ /\ verb # ""
          /\ \/ (whitelist_name \o money_notation) \in s
             \/ (short_whitelist_name \o money_notation) \in s
             \/ (whitelist_name \o underscore_notation) \in s
             \/ (short_whitelist_name \o underscore_notation) \in s

\* a slip: None is not taken as "unrestricted"
_is_whitelisted_no_none(whitelist_name, wl, verb) ==
    wl.t = "list" /\ InWhitelist(whitelist_name, wl.s, verb)

\* a slip: the name of the relation the path starts with grants the path
_is_whitelisted_by_relation(whitelist_name, wl, verb) ==
    IF wl.t = "None" THEN TRUE
    ELSE /\ wl.t = "list"
         /\ \/ InWhitelist(whitelist_name, wl.s, verb)
            \/ Split(whitelist_name, ".")[1] \in wl.s

_is_whitelisted(whitelist_name, wl, verb) ==
    IF wl.t = "None" THEN TRUE
    ELSE IF wl.t = "list" THEN InWhitelist(whitelist_name, wl.s, verb)
    ELSE FALSE

(***************************************************************************)
(* Update tree builder.                                                    *)
(***************************************************************************)
TypeErr == [t |-> "TypeError"]

\* d[k] = v on a Python dict
DictSet(f, k, v) == [x \in (DOMAIN f) \cup {k} |-> IF x = k THEN v ELSE f[x]]

RECURSIVE EnsurePathAlwaysNew(_, _)
\* a slip: the test `if name not in sub_result` is missing, so an existing
\* sub dict is replaced by an empty one
EnsurePathAlwaysNew(node, names) ==
    IF Len(names) = 0 THEN node
    ELSE IF ~IsDict(node) THEN TypeErr
    ELSE LET sub == EnsurePathAlwaysNew(EmptyDict, Tail(names))
         IN Dict(DictSet(node.d, names[1], sub))

RECURSIVE EnsurePath(_, _)
\* the inner loop of _split_dict_params: from `node`, walk `names`, creating
\* an empty dict wherever a name is missing.  A raw value met on the way makes
\* Python raise TypeError (`name not in 5`, `"x"[name] = {}`).
EnsurePath(node, names) ==
    IF Len(names) = 0 THEN node
    ELSE IF ~IsDict(node) THEN TypeErr
    ELSE LET child == IF names[1] \in DOMAIN node.d THEN node.d[names[1]]
                      ELSE EmptyDict
             sub == EnsurePath(child, Tail(names))
         IN IF sub.t = "TypeError" THEN TypeErr
            ELSE Dict(DictSet(node.d, names[1], sub))

RECURSIVE AssignAt(_, _, _, _)
\* sub_result[prop_name] = value, sub_result the node reached by `names`
AssignAt(node, names, prop_name, value) ==
    IF ~IsDict(node) THEN TypeErr
    ELSE IF Len(names) = 0 THEN Dict(DictSet(node.d, prop_name, value))
    ELSE LET sub == AssignAt(node.d[names[1]], Tail(names), prop_name, value)
         IN IF sub.t = "TypeError" THEN TypeErr
            ELSE Dict(DictSet(node.d, names[1], sub))

\* one iteration of the loop over update_params.keys(); the walk made for the
\* last prop_name covers the walks made for the earlier ones
SplitOneKey(result, key, value) ==
    LET split_name == Split(key, ".")
        walked == EnsurePath(result, Front(split_name))
    IN IF walked.t = "TypeError" THEN TypeErr
       ELSE AssignAt(walked, Front(split_name), Last(split_name), value)

RECURSIVE SplitFrom(_, _, _)
SplitFrom(result, update_params, i) ==
    IF i > Len(update_params) THEN result
    ELSE LET next == SplitOneKey(result, update_params[i][1], update_params[i][2])
         IN IF next.t = "TypeError" THEN TypeErr
            ELSE SplitFrom(next, update_params, i + 1)

\* update_params: the flat dict in iteration order, <<key, value>> pairs
_split_dict_params(update_params) == SplitFrom(EmptyDict, update_params, 1)

RECURSIVE Flatten(_, _)
\* the dotted paths of the leaves of a tree (the inverse reading of a tree)
Flatten(node, prefix) ==
    IF ~IsDict(node) THEN {prefix}
    ELSE UNION { Flatten(node.d[k],
                         IF prefix = "" THEN k ELSE prefix \o "." \o k)
                 : k \in DOMAIN node.d }

KeysOf(update_params) == { update_params[i][1] : i \in 1..Len(update_params) }

\* key a is a proper dotted prefix of key b
DottedPrefix(a, b) == a # b /\ StartsWith(b, a \o ".")

PrefixFree(update_params) ==
    \A a, b \in KeysOf(update_params) : ~DottedPrefix(a, b)

\* the ordered dicts with at most n keys drawn from the pool of pairs kv
RECURSIVE OrderedDicts(_, _)
OrderedDicts(kv, n) ==
    IF n = 0 THEN { <<>> }
    ELSE LET shorter == OrderedDicts(kv, n - 1)
         IN shorter \cup
            { Append(m, e) : m \in { x \in shorter : Len(x) = n - 1 },
                             e \in kv }

UniqueKeys(m) == \A i, j \in 1..Len(m) : i # j => m[i][1] # m[j][1]

(***************************************************************************)
(* Inputs of the pure functions.                                           *)
(***************************************************************************)
SplitKeyPool == {"a", "b", "a.b", "a.c", "a.b.c", "b.a"}

SplitProbes ==
    { [fn |-> "split", update_params |-> m] :
        m \in { x \in OrderedDicts(SplitKeyPool \X {Val("1")}, MaxSplitKeys) :
                  UniqueKeys(x) } }

ReservedPrefixes ==
    {"", "$add", "_add_", "$remove", "_remove_", "$set", "_set_", "$new",
     "_new_", "id-", "$id:", "id", "$id", "_new", "add", "name", "track_id"}

SuffixChars == {"a", "_", "0", "$", "-", ":"}

RECURSIVE Suffixes(_)
Suffixes(n) ==
    IF n = 0 THEN {""}
    ELSE LET shorter == Suffixes(n - 1)
         IN shorter \cup { s \o c : s \in shorter, c \in SuffixChars }

ClassifyProbes ==
    { [fn |-> "classify", key |-> p \o s] :
        p \in ReservedPrefixes, s \in Suffixes(MaxSuffix) }

WLNames ==
    {"tracks", "tracks.$id", "tracks.$new", "tracks.$id.name",
     "tracks.$new.name", "artist.$id", "title"}

WLEntries ==
    {"tracks", "tracks.$add", "tracks._add_", "tracks.$id.$add",
     "tracks.name", "tracks.$id.name", "tracks.$create", "artist.$set"}

Verbs == {"", "add", "remove", "set", "create"}

WhitelistProbes ==
    { [fn |-> "whitelisted", name |-> n, verb |-> v, W1 |-> w, extra |-> x] :
        n \in WLNames, v \in Verbs,
        w \in { s \in SUBSET WLEntries : Cardinality(s) <= 1 },
        x \in { s \in SUBSET WLEntries : Cardinality(s) \in 1..MaxExtra } }

\* paths of segments: a name, an identity token or a new token.  A token
\* is its form followed by a value (the field value, the label)
Name(n) == [k |-> "name", s |-> n]
IdSlot(form) == [k |-> "id", s |-> form]
NewSlot(form) == [k |-> "new", s |-> form]
PathShapes ==
    { <<Name("tracks")>>, <<Name("artist")>>,
      <<Name("tracks"), IdSlot("$id:track_id=")>>,
      <<Name("tracks"), IdSlot("id-track_id-")>>,
      <<Name("tracks"), NewSlot("$new")>>,
      <<Name("artist"), NewSlot("_new_")>>,
      <<Name("tracks"), IdSlot("$id:track_id="), Name("name")>>,
      <<Name("tracks"), NewSlot("$new"), Name("name")>>,
      <<Name("artist"), IdSlot("$id:artist_id="), Name("albums"),
        IdSlot("id-album_id-")>> }
IdValues == {"1", "2"}
NewLabels == {"", "0"}
Fillings == [id : IdValues, new : NewLabels]
\* the key stack of a shape, its tokens filled in
Fill(shape, filling) ==
    [i \in 1..Len(shape) |->
        IF shape[i].k = "name" THEN shape[i].s
        ELSE shape[i].s \o filling[shape[i].k]]

PermissionEntries ==
    {"tracks", "artist", "tracks.$add", "tracks.$id.$remove", "tracks.name",
     "tracks.$id.name", "tracks.$new.name", "artist._set_",
     "tracks.$id:track_id=1.name", "artist.albums"}

PermissionProbes ==
    { [fn |-> "permission", shape |-> h, one |-> f, other |-> g, verb |-> v,
       W |-> w] :
        h \in PathShapes, f \in Fillings, g \in Fillings, v \in Verbs,
        w \in { x \in SUBSET PermissionEntries :
                  Cardinality(x) <= MaxEntries } }

\* _convert_key_name, lines 812-816: "id" and "-name-value" for every field
\* of the identity (the names here are in underscore form already)
RECURSIVE EncodeHyphen(_)
EncodeHyphen(pairs) ==
    IF pairs = <<>> THEN "id"
    ELSE EncodeHyphen(Front(pairs))
         \o "-" \o Last(pairs)[1] \o "-" \o Last(pairs)[2]

\* the form the second branch of get_primary_key_dict reads: "$id" and
\* ":name=value" for every field
RECURSIVE EncodeSigil(_)
EncodeSigil(pairs) ==
    IF pairs = <<>> THEN "$id"
    ELSE EncodeSigil(Front(pairs))
         \o ":" \o Last(pairs)[1] \o "=" \o Last(pairs)[2]

\* identity tokens: a prefix _is_id_key accepts and any characters after it
IdBodyChars == {"a", "1", "-", ":", "="}
RECURSIVE IdBodies(_)
IdBodies(n) ==
    IF n = 0 THEN {""}
    ELSE LET shorter == IdBodies(n - 1)
         IN shorter \cup { b \o c : b \in shorter, c \in IdBodyChars }
\* identities: field names and values without a separator character
IdFieldNames == {"track_id", "k"}
IdFieldValues == {"1", "22", ""}
Identities ==
    { m \in OrderedDicts(IdFieldNames \X IdFieldValues, MaxIdFields) :
        UniqueKeys(m) }

PrimaryKeyProbes ==
    { [fn |-> "primary_key", id_string |-> p \o b, encoded |-> NoneVal] :
        p \in {"id-", "$id:"}, b \in IdBodies(MaxIdBody) }
    \cup { [fn |-> "primary_key", id_string |-> EncodeHyphen(m),
            encoded |-> [t |-> "identity", pairs |-> m, form |-> "hyphen"]] :
              m \in Identities }
    \cup { [fn |-> "primary_key", id_string |-> EncodeSigil(m),
            encoded |-> [t |-> "identity", pairs |-> m, form |-> "sigil"]] :
              m \in Identities }

NoProbe == [fn |-> "none"]
NoResult == [t |-> "none"]

\* a Python identifier: what the name of a mapped attribute can be
IdentStart == "ABCDEFGHIJKLMNOPQRSTUVWXYZ_abcdefghijklmnopqrstuvwxyz"
IdentRest == "0123456789"
InStr(c, s) == \E i \in 1..Len(s) : Chr(s, i) = c
IsIdentifier(s) ==
    /\ Len(s) > 0
    /\ InStr(Chr(s, 1), IdentStart)
    /\ \A i \in 2..Len(s) : InStr(Chr(s, i), IdentStart \o IdentRest)

(***************************************************************************)
(* The mapped classes: what the mapping layer tells the engine.  Album is  *)
(* the class of the root record; it has one single-valued and one          *)
(* list-valued relation.                                                   *)
(***************************************************************************)
Column(type) == [kind |-> "column", type |-> type]
Relationship(target, uselist) ==
    [kind |-> "relationship", target |-> target, uselist |-> uselist]

Schema ==
    [Album  |-> [album_id |-> Column("Integer"),
                 title    |-> Column("String"),
                 artist   |-> Relationship("Artist", FALSE),
                 tracks   |-> Relationship("Track", TRUE)],
     Artist |-> [artist_id |-> Column("Integer"),
                 name      |-> Column("String")],
     Track  |-> [track_id |-> Column("Integer"),
                 name     |-> Column("String")]]

RootClass == "Album"

AttrsOfKind(cls, kind) ==
    { a \in DOMAIN Schema[cls] : Schema[cls][a].kind = kind }

\* class_mapper(RecordClass).primary_key, as property names
get_alchemy_primary_keys(RecordClass) ==
    IF RecordClass = "Album" THEN <<"album_id">>
    ELSE IF RecordClass = "Artist" THEN <<"artist_id">>
    ELSE <<"track_id">>

\* the entries of class_attrs
ClassRef(cls) == [t |-> "class", cls |-> cls]
AttrRef(cls, name) == [t |-> "attr", cls |-> cls, name |-> name]
Prop(a) == Schema[a.cls][a.name]
\* hasattr(x, "property")
HasProperty(x) == x.t = "attr"
IsRelationship(x) == HasProperty(x) /\ Prop(x).kind = "relationship"
IsColumn(x) == HasProperty(x) /\ Prop(x).kind = "column"

AttributeError == [ok |-> FALSE]

RECURSIVE ClassAttrsFrom(_, _, _, _)
\* the loop of get_class_attributes over split_attr_name
ClassAttrsFrom(root_type, split_attr_name, i, class_attrs) ==
    IF i > Len(split_attr_name) THEN [ok |-> TRUE, attrs |-> class_attrs]
    ELSE
      LET attr_name == split_attr_name[i]
          rel == IsRelationship(root_type)
      IN IF rel /\ (_is_id_key(attr_name) \/ _is_new_key(attr_name))
         THEN ClassAttrsFrom(root_type, split_attr_name, i + 1,
                             Append(class_attrs, ClassRef(Prop(root_type).target)))
         ELSE IF rel /\ (_is_add_key(attr_name) \/ _is_remove_key(attr_name)
                         \/ _is_set_key(attr_name))
         THEN ClassAttrsFrom(root_type, split_attr_name, i + 1,
                             Append(class_attrs, NoneVal))
         ELSE
           LET holder == IF rel THEN ClassRef(Prop(root_type).target)
                         ELSE root_type
           IN \* getattr(holder, attr_name): a mapped class has its mapped
              \* attributes, a column attribute has none of the names used
              IF holder.t = "class" /\ attr_name \in DOMAIN Schema[holder.cls]
              THEN ClassAttrsFrom(AttrRef(holder.cls, attr_name),
                                  split_attr_name, i + 1,
                                  Append(class_attrs,
                                         AttrRef(holder.cls, attr_name)))
              ELSE AttributeError

\* get_class_attributes once attr_name is split
ClassAttrsOf(RecordClass, split_attr_name) ==
    IF split_attr_name[1] # RecordClass THEN AttributeError
    ELSE ClassAttrsFrom(ClassRef(RecordClass), Tail(split_attr_name), 1,
                        <<ClassRef(RecordClass)>>)

get_class_attributes(RecordClass, attr_name) ==
    ClassAttrsOf(RecordClass, Split(attr_name, "."))

(***************************************************************************)
(* Values and their conversion (mqlalchemy.convert_to_alchemy_type): a raw *)
(* value of the update map is a string; a column holds a typed value.      *)
(***************************************************************************)
Digits == "0123456789"
IsNumeric(s) == Len(s) > 0 /\ \A i \in 1..Len(s) : InStr(Chr(s, i), Digits)
DigitValue(c) == (CHOOSE i \in 1..10 : Chr(Digits, i) = c) - 1

RECURSIVE ParseInt(_)
ParseInt(s) ==
    IF Len(s) = 0 THEN 0
    ELSE 10 * ParseInt(SubSeq(s, 1, Len(s) - 1)) + DigitValue(Chr(s, Len(s)))

IntVal(n) == [t |-> "int", n |-> n]
StrVal(v) == [t |-> "str", v |-> v]
BoolVal(b) == [t |-> "bool", b |-> b]

\* the values a relation marker ($add, $set) must have to count
TruthyMarkers == {"True", "true", "1"}

\* convert_to_alchemy_type(value, type): the typed value, or a TypeError (a
\* text that is no number for an Integer column; a nested dict for any column)
convert_to_alchemy_type(value, type) ==
    IF value.t # "val" THEN TypeErr
    ELSE IF type = "Integer"
         THEN IF IsNumeric(value.v) THEN IntVal(ParseInt(value.v)) ELSE TypeErr
    ELSE IF type = "BOOLEAN" THEN BoolVal(value.v \in TruthyMarkers)
    ELSE StrVal(value.v)

(***************************************************************************)
(* get_primary_key_dict                                                    *)
(***************************************************************************)
RECURSIVE HyphenPairs(_, _, _)
HyphenPairs(split_string, i, result) ==
    IF i > Len(split_string) THEN result
    ELSE HyphenPairs(split_string, i + 2,
                     DictSet(result, split_string[i], split_string[i + 1]))

\* a slip: a pair with more than one "=" is cut after the second part
RECURSIVE SigilPairsLenient(_, _, _)
SigilPairsLenient(split_string, i, result) ==
    IF i > Len(split_string) THEN [ok |-> TRUE, data |-> result]
    ELSE LET split_key_value == Split(split_string[i], "=")
         IN IF Len(split_key_value) < 2 THEN AttributeError
            ELSE SigilPairsLenient(split_string, i + 1,
                                   DictSet(result, split_key_value[1],
                                           split_key_value[2]))

RECURSIVE SigilPairs(_, _, _)
SigilPairs(split_string, i, result) ==
    IF i > Len(split_string) THEN [ok |-> TRUE, data |-> result]
    ELSE LET split_key_value == Split(split_string[i], "=")
         IN IF Len(split_key_value) # 2 THEN AttributeError
            ELSE SigilPairs(split_string, i + 1,
                            DictSet(result, split_key_value[1],
                                    split_key_value[2]))

get_primary_key_dict(id_string) ==
    IF StartsWith(id_string, "id-")
    THEN LET split_string == Split(SubSeq(id_string, 4, Len(id_string)), "-")
         IN IF Len(split_string) % 2 = 1 THEN AttributeError
            ELSE [ok |-> TRUE, data |-> HyphenPairs(split_string, 1, <<>>)]
    ELSE IF StartsWith(id_string, "$id:")
    THEN SigilPairs(Split(SubSeq(id_string, 5, Len(id_string)), ":"), 1, <<>>)
    ELSE [ok |-> TRUE, data |-> NoneVal]

(***************************************************************************)
(* Error aggregator.                                                       *)
(***************************************************************************)
_append_error(errors, field_name, message) ==
    DictSet(errors, field_name,
            IF field_name \in DOMAIN errors
            THEN Append(errors[field_name], message)
            ELSE <<message>>)

(***************************************************************************)
(* The object graph.  heap[o] is the record with object id o; a single     *)
(* valued relation holds an object id or 0 (None), a list valued relation  *)
(* a sequence of object ids; lattr holds what setattr stored on the list   *)
(* object of a relation.  stored tells a row of the backing store from an  *)
(* instance made during the run.                                           *)
(***************************************************************************)
ObjRef(id) == [t |-> "obj", id |-> id]
ListRef(owner, rel) == [t |-> "list", owner |-> owner, rel |-> rel]

SingleRels(cls) ==
    { a \in AttrsOfKind(cls, "relationship") : ~Schema[cls][a].uselist }
ListRels(cls) ==
    { a \in AttrsOfKind(cls, "relationship") : Schema[cls][a].uselist }

\* RecordClass()
NewInstance(cls) ==
    [cls |-> cls, stored |-> FALSE,
     cols |-> [c \in AttrsOfKind(cls, "column") |-> NoneVal],
     one |-> [r \in SingleRels(cls) |-> 0],
     many |-> [r \in ListRels(cls) |-> <<>>],
     lattr |-> [r \in ListRels(cls) |-> <<>>]]

\* a slip: the column is set on every record of the class of the object
SetColOnClass(hp, o, c, v) ==
    [i \in 1..Len(hp) |->
        IF hp[i].cls = hp[o].cls
        THEN [hp[i] EXCEPT !.cols = DictSet(@, c, v)] ELSE hp[i]]

SetCol(hp, o, c, v) == [hp EXCEPT ![o].cols[c] = v]
SetOne(hp, o, r, target) == [hp EXCEPT ![o].one[r] = target]
ListAppend(hp, o, r, x) == [hp EXCEPT ![o].many[r] = Append(@, x)]
SeqContains(q, x) == \E i \in 1..Len(q) : q[i] = x
\* list.remove(x): the first occurrence leaves
SeqRemove(q, x) ==
    LET i == CHOOSE j \in 1..Len(q) : q[j] = x /\ \A k \in 1..(j - 1) : q[k] # x
    IN SubSeq(q, 1, i - 1) \o SubSeq(q, i + 1, Len(q))
\* a slip: the collection is emptied
ListRemoveAll(hp, o, r, x) == [hp EXCEPT ![o].many[r] = <<>>]

ListRemove(hp, o, r, x) == [hp EXCEPT ![o].many[r] = SeqRemove(@, x)]

\* the rows of class cls whose primary key columns equal the filter
FindByPrimaryKey(hp, cls, filter) ==
    { o \in 1..Len(hp) :
        /\ hp[o].cls = cls
        /\ hp[o].stored
        /\ \A k \in DOMAIN filter : hp[o].cols[k] = filter[k] }

\* a slip: only the list valued relations of the parent are looked at
WithParentInListsOnly(hp, parent, cls) ==
    IF ~hp[parent].stored THEN {}
    ELSE { o \in 1..Len(hp) :
             \E r \in ListRels(hp[parent].cls) :
                 Schema[hp[parent].cls][r].target = cls
                 /\ SeqContains(hp[parent].many[r], o) }

\* query(cls).with_parent(parent): the rows related to a stored parent
\* through its relation to cls; a parent that is no row has none
WithParent(hp, parent, cls) ==
    IF ~hp[parent].stored THEN {}
    ELSE { o \in 1..Len(hp) :
             \/ \E r \in SingleRels(hp[parent].cls) :
                   Schema[hp[parent].cls][r].target = cls /\ hp[parent].one[r] = o
             \/ \E r \in ListRels(hp[parent].cls) :
                   Schema[hp[parent].cls][r].target = cls
                   /\ SeqContains(hp[parent].many[r], o) }

RECURSIVE FilterFrom(_, _, _, _, _, _)
FilterFrom(RecordClass, primary_key_names, primary_key_data, i, filter, r) ==
    IF i > Len(primary_key_names) THEN [ok |-> TRUE, filter |-> filter,
                                         errors |-> r.errors]
    ELSE
      LET primary_key_name == primary_key_names[i]
      IN IF primary_key_name \in DOMAIN primary_key_data
         THEN LET primary_key_value ==
                     convert_to_alchemy_type(
                         Val(primary_key_data[primary_key_name]),
                         Schema[RecordClass][primary_key_name].type)
              IN IF primary_key_value.t = "TypeError"
                 THEN [ok |-> FALSE,
                       errors |-> _append_error(r.errors, r.name,
                                     "Invalid id primary key value.")]
                 ELSE FilterFrom(RecordClass, primary_key_names,
                                 primary_key_data, i + 1,
                                 DictSet(filter, primary_key_name,
                                         primary_key_value), r)
         ELSE [ok |-> FALSE,
               errors |-> _append_error(r.errors, r.name,
                             "Invalid id primary key field.")]

\* the filter on the primary key columns, or the error recorded
_filter_by_primary_key(RecordClass, primary_key_names, primary_key_data, full_attr_name, errors) ==
    FilterFrom(RecordClass, primary_key_names, primary_key_data, 1, <<>>,
               [name |-> full_attr_name, errors |-> errors])

\* a slip: the marker counts whatever its value
HasMarker(update_stack_item, names) ==
    /\ IsDict(update_stack_item)
    /\ \E n \in names : n \in DOMAIN update_stack_item.d

\* a slip: a raw value that is true counts as a marker
HasTrueMarkerOrValue(update_stack_item, names) ==
    IF IsDict(update_stack_item)
    THEN \E n \in names :
            /\ n \in DOMAIN update_stack_item.d
            /\ update_stack_item.d[n].t = "val"
            /\ update_stack_item.d[n].v \in TruthyMarkers
    ELSE update_stack_item.v \in TruthyMarkers

\* update_stack_item.get(n) in (True, "True", "true", 1, "1") for an n of names
HasTrueMarker(update_stack_item, names) ==
    /\ IsDict(update_stack_item)
    /\ \E n \in names :
          /\ n \in DOMAIN update_stack_item.d
          /\ update_stack_item.d[n].t = "val"
          /\ update_stack_item.d[n].v \in TruthyMarkers

Outcome(success, errors, hp) ==
    [success |-> success, errors |-> errors, heap |-> hp]

\* a slip: validation mode is not looked at before parent.append
_append_to_list_relation_in_validation(relation_obj, parent, update_stack_item, full_attr_name, whitelist_name, wl, errors, hp, vmode) ==
    IF ~HasTrueMarker(update_stack_item, {"$add", "_add_"})
    THEN Outcome(FALSE,
                 _append_error(errors, full_attr_name,
                               "forgot to include an $add field?"), hp)
    ELSE IF ~_is_whitelisted(whitelist_name, wl, "add")
    THEN Outcome(FALSE,
                 _append_error(errors, full_attr_name,
                               "Adding an object to this relation is not whitelisted"),
                 hp)
    ELSE Outcome(TRUE, errors,
                 ListAppend(hp, parent.owner, parent.rel, relation_obj))

_append_to_list_relation(relation_obj, parent, update_stack_item, full_attr_name, whitelist_name, wl, errors, hp, vmode) ==
    IF ~HasTrueMarker(update_stack_item, {"$add", "_add_"})
    THEN Outcome(FALSE,
                 _append_error(errors, full_attr_name,
                               "forgot to include an $add field?"), hp)
    ELSE IF ~_is_whitelisted(whitelist_name, wl, "add")
    THEN Outcome(FALSE,
                 _append_error(errors, full_attr_name,
                               "Adding an object to this relation is not whitelisted"),
                 hp)
    ELSE Outcome(TRUE, errors,
                 IF ~vmode
                 THEN ListAppend(hp, parent.owner, parent.rel, relation_obj)
                 ELSE hp)

\* a slip: a relation that is set is replaced under the rule of an empty one
_set_non_list_relationship_obj_as_if_empty(relation_obj, parent, relationship_name, update_stack_item, full_attr_name, whitelist_name, wl, errors, hp, vmode) ==
    IF ~HasTrueMarker(update_stack_item, {"$set", "_set_", "$add", "_add_"})
    THEN Outcome(FALSE,
                 _append_error(errors, full_attr_name,
                               "forget to include a set or add command"), hp)
    ELSE IF ~(\/ _is_whitelisted(whitelist_name, wl, "add")
              \/ _is_whitelisted(whitelist_name, wl, "set"))
    THEN Outcome(FALSE,
                 _append_error(errors, full_attr_name,
                               "Neither $set nor $add are whitelisted."), hp)
    ELSE Outcome(TRUE, errors,
                 IF ~vmode
                 THEN SetOne(hp, parent, relationship_name, relation_obj)
                 ELSE hp)

_set_non_list_relationship_obj(relation_obj, parent, relationship_name, update_stack_item, full_attr_name, whitelist_name, wl, errors, hp, vmode) ==
    IF hp[parent].one[relationship_name] # 0
    THEN IF ~HasTrueMarker(update_stack_item, {"$set", "_set_"})
         THEN Outcome(FALSE,
                      _append_error(errors, full_attr_name,
                                    "forget to include a set command"), hp)
         ELSE IF ~(\/ _is_whitelisted(whitelist_name, wl, "set")
                   \/ /\ _is_whitelisted(whitelist_name, wl, "remove")
                      /\ _is_whitelisted(whitelist_name, wl, "add"))
         THEN Outcome(FALSE,
                      _append_error(errors, full_attr_name,
                                    "neither $set nor $remove and $add are whitelisted."),
                      hp)
         ELSE Outcome(TRUE, errors,
                      IF ~vmode
                      THEN SetOne(hp, parent, relationship_name, relation_obj)
                      ELSE hp)
    ELSE IF ~HasTrueMarker(update_stack_item,
                           {"$set", "_set_", "$add", "_add_"})
         THEN Outcome(FALSE,
                      _append_error(errors, full_attr_name,
                                    "forget to include a set or add command"),
                      hp)
         ELSE IF ~(\/ _is_whitelisted(whitelist_name, wl, "add")
                   \/ _is_whitelisted(whitelist_name, wl, "set"))
         THEN Outcome(FALSE,
                      _append_error(errors, full_attr_name,
                                    "Neither $set nor $add are whitelisted."),
                      hp)
         ELSE Outcome(TRUE, errors,
                      IF ~vmode
                      THEN SetOne(hp, parent, relationship_name, relation_obj)
                      ELSE hp)

\* a slip: nothing is parsed out
_cleanse_update_params_keeps_all(cls, query_params) == query_params

\* hasattr(instance, key_name) for the first segment of every key
_cleanse_update_params(cls, query_params) ==
    LET Keep(kv) == Split(kv[1], ".")[1] \in DOMAIN Schema[cls]
    IN SelectSeq(query_params, Keep)

(***************************************************************************)
(* update_resource, create_resource and the loop of _set_record_attrs,     *)
(* one action per iteration.  convert_key_names is left at its default, so *)
(* c_key is key and c_key_stack runs along key_stack.                      *)
(***************************************************************************)
PopMark == [t |-> "POP"]

\* the prologue of _set_record_attrs (lines 827-844)
Prologue(root, cleansed) ==
    LET split_params == _split_dict_params(cleansed)
    IN IF split_params.t = "TypeError"
       THEN /\ pc' = "crashed"
            /\ exc' = [t |-> "TypeError"]
            /\ UNCHANGED <<update_stack, attr_stack>>
       ELSE /\ pc' = "walk"
            /\ exc' = NoneVal
            /\ update_stack' = <<split_params>>
            /\ attr_stack' = <<ObjRef(root)>>

UpdateResource ==
    /\ pc = "start"
    /\ entry = "update"
    /\ Prologue(instance, _cleanse_update_params(heap[instance].cls, params))
    /\ UNCHANGED <<params, whitelist, add_to_session, stack_size_limit,
                   validation_mode, entry, instance, key_stack, c_key_stack,
                   error_dict, heap, session, return_value, processed,
                   probe, probe_out>>

CreateResource ==
    /\ pc = "start"
    /\ entry = "create"
    /\ heap' = Append(heap, NewInstance(RootClass))
    /\ instance' = Len(heap) + 1
    /\ Prologue(Len(heap) + 1, _cleanse_update_params(RootClass, params))
    /\ UNCHANGED <<params, whitelist, add_to_session, stack_size_limit,
                   validation_mode, entry, key_stack, c_key_stack,
                   error_dict, session, return_value, processed, probe,
                   probe_out>>

inputs == <<params, whitelist, add_to_session, stack_size_limit,
            validation_mode, entry, instance, probe, probe_out>>

\* `stack_size_limit and len(update_stack) > stack_size_limit`
LimitExceeded ==
    /\ stack_size_limit.t = "int"
    /\ stack_size_limit.n # 0
    /\ Len(update_stack) > stack_size_limit.n

Iterating == pc = "walk" /\ update_stack # <<>> /\ ~LimitExceeded

item == Last(update_stack)
IsSingleKey == item.t = "dict" /\ Cardinality(DOMAIN item.d) = 1
key == CHOOSE k \in DOMAIN item.d : TRUE
parent == Last(attr_stack)
full_attr_name == get_full_attr_name(key_stack, key)
\* get_class_attributes(RecordClass, ".".join([RecordClass.__name__] +
\* c_key_stack + [c_key])): no key of the tree holds a ".", so splitting
\* the joined name gives the joined list back
Resolved ==
    ClassAttrsOf(heap[instance].cls,
                 <<heap[instance].cls>> \o c_key_stack \o <<key>>)
class_attrs == Resolved.attrs
\* class_attrs[-n]
FromEnd(q, n) == q[Len(q) + 1 - n]

\* a slip: the subtree is pushed without its POP marker
DescendWithoutMarker(obj) ==
    /\ key_stack' = Append(key_stack, key)
    /\ c_key_stack' = Append(c_key_stack, key)
    /\ attr_stack' = Append(attr_stack, obj)
    /\ update_stack' = Front(update_stack) \o <<item.d[key]>>

\* push the object and the key, a POP marker and the subtree
Descend(obj) ==
    /\ key_stack' = Append(key_stack, key)
    /\ c_key_stack' = Append(c_key_stack, key)
    /\ attr_stack' = Append(attr_stack, obj)
    /\ update_stack' = Front(update_stack) \o <<PopMark, item.d[key]>>

NoDescend ==
    /\ update_stack' = Front(update_stack)
    /\ UNCHANGED <<key_stack, c_key_stack, attr_stack>>

Fail(message) == error_dict' = _append_error(error_dict, full_attr_name, message)

TooComplex ==
    /\ pc = "walk"
    /\ update_stack # <<>>
    /\ LimitExceeded
    /\ pc' = "too_complex"
    /\ exc' = [t |-> "message", v |-> "This update is too complex."]
    /\ UNCHANGED <<inputs, update_stack, key_stack, c_key_stack, attr_stack,
                   error_dict, heap, session, return_value, processed>>

PopMarker ==
    /\ Iterating
    /\ UNCHANGED return_value
    /\ item.t = "POP"
    /\ update_stack' = Front(update_stack)
    /\ attr_stack' = Front(attr_stack)
    /\ key_stack' = Front(key_stack)
    /\ c_key_stack' = Front(c_key_stack)
    /\ UNCHANGED <<inputs, pc, exc, error_dict, heap, session, processed>>

\* a slip: the first unresolvable name ends the walk
InvalidAttributeNameStops ==
    /\ Iterating
    /\ UNCHANGED return_value
    /\ IsSingleKey
    /\ ~Resolved.ok
    /\ Fail("Invalid attribute name.")
    /\ update_stack' = <<>>
    /\ processed' = Append(processed, full_attr_name)
    /\ UNCHANGED <<inputs, pc, exc, heap, session, key_stack, c_key_stack,
                   attr_stack>>

\* lines 869-880
InvalidAttributeName ==
    /\ Iterating
    /\ UNCHANGED return_value
    /\ IsSingleKey
    /\ ~Resolved.ok
    /\ Fail("Invalid attribute name.")
    /\ NoDescend
    /\ processed' = Append(processed, full_attr_name)
    /\ UNCHANGED <<inputs, pc, exc, heap, session>>

\* lines 881-888
AddOrSetKey ==
    /\ Iterating
    /\ UNCHANGED return_value
    /\ IsSingleKey
    /\ Resolved.ok
    /\ _is_add_key(key) \/ _is_set_key(key)
    /\ NoDescend
    /\ processed' = Append(processed, full_attr_name)
    /\ UNCHANGED <<inputs, pc, exc, error_dict, heap, session>>

\* lines 889-932
RemoveKey ==
    /\ Iterating
    /\ UNCHANGED return_value
    /\ IsSingleKey
    /\ Resolved.ok
    /\ ~(_is_add_key(key) \/ _is_set_key(key))
    /\ _is_remove_key(key)
    /\ processed' = Append(processed, full_attr_name)
    /\ update_stack' = Front(update_stack)
    /\ UNCHANGED <<inputs, key_stack, c_key_stack, session>>
    /\ LET should_remove == convert_to_alchemy_type(item.d[key], "BOOLEAN")
           whitelist_name == _get_whitelist_name(c_key_stack)
       IN IF should_remove.t = "TypeError"
          THEN /\ pc' = "crashed"
               /\ exc' = [t |-> "TypeError"]
               /\ UNCHANGED <<attr_stack, error_dict, heap>>
          ELSE IF ~should_remove.b
          THEN UNCHANGED <<pc, exc, attr_stack, error_dict, heap>>
          ELSE IF ~_is_whitelisted(whitelist_name, whitelist, "remove")
          THEN /\ Fail("Removing this relation is not allowed.")
               /\ UNCHANGED <<pc, exc, attr_stack, heap>>
          ELSE IF /\ Len(class_attrs) >= 4
                  /\ HasProperty(FromEnd(class_attrs, 3))
                  /\ ~Prop(FromEnd(class_attrs, 3)).uselist
          THEN \* the single valued relation of the grandparent becomes None
               LET grandparent == FromEnd(attr_stack, 3)
               IN /\ heap' = IF ~validation_mode
                             THEN SetOne(heap, grandparent.id,
                                         FromEnd(c_key_stack, 2), 0)
                             ELSE heap
                  /\ attr_stack' = Append(Front(attr_stack), NoneVal)
                  /\ UNCHANGED <<pc, exc, error_dict>>
          ELSE IF /\ Len(class_attrs) >= 3
                  /\ HasProperty(FromEnd(class_attrs, 3))
                  /\ Prop(FromEnd(class_attrs, 3)).uselist
          THEN \* grandparent.remove(parent) on the list of the relation
               LET grandparent == FromEnd(attr_stack, 2)
               IN IF validation_mode
                  THEN UNCHANGED <<pc, exc, attr_stack, error_dict, heap>>
                  ELSE IF /\ parent.t = "obj"
                          /\ SeqContains(heap[grandparent.owner].many[grandparent.rel],
                                         parent.id)
                  THEN /\ heap' = ListRemove(heap, grandparent.owner,
                                             grandparent.rel, parent.id)
                       /\ UNCHANGED <<pc, exc, attr_stack, error_dict>>
                  ELSE \* list.remove(x) with x not in the list: ValueError
                       /\ pc' = "crashed"
                       /\ exc' = [t |-> "ValueError"]
                       /\ UNCHANGED <<attr_stack, error_dict, heap>>
          ELSE /\ Fail("Removing this relation is not a valid action.")
               /\ UNCHANGED <<pc, exc, attr_stack, heap>>

\* a slip: the new record is registered whether or not it was attached
db_session_add_unchecked(sess, sub_instance, success) ==
    IF add_to_session /\ ~validation_mode THEN Append(sess, sub_instance)
    ELSE sess

\* lines 990-991: db_session.add(sub_instance) and its condition
db_session_add(sess, sub_instance, success) ==
    IF add_to_session /\ ~validation_mode /\ success
    THEN Append(sess, sub_instance)
    ELSE sess

\* lines 933-999
NewKey ==
    /\ Iterating
    /\ UNCHANGED return_value
    /\ IsSingleKey
    /\ Resolved.ok
    /\ ~(_is_add_key(key) \/ _is_set_key(key))
    /\ ~_is_remove_key(key)
    /\ _is_new_key(key)
    /\ processed' = Append(processed, full_attr_name)
    /\ UNCHANGED <<inputs, pc, exc>>
    /\ LET whitelist_name == _get_whitelist_name(c_key_stack)
       IN IF ~_is_whitelisted(whitelist_name, whitelist, "create")
          THEN /\ Fail("You may not create a new instance of this object.")
               /\ NoDescend
               /\ UNCHANGED <<heap, session>>
          ELSE IF ~IsDict(item.d[key])
          THEN /\ Fail("Attempted to set an object to a raw value.")
               /\ NoDescend
               /\ UNCHANGED <<heap, session>>
          ELSE IF ~(Len(class_attrs) >= 2 /\ HasProperty(FromEnd(class_attrs, 2)))
          THEN /\ Fail("Invalid parent for this newly created object.")
               /\ NoDescend
               /\ UNCHANGED <<heap, session>>
          ELSE
            LET RecordClass == Prop(FromEnd(class_attrs, 2)).target
                sub_instance == Len(heap) + 1
                made == Append(heap, NewInstance(RecordClass))
                r == IF Prop(FromEnd(class_attrs, 2)).uselist
                     THEN _append_to_list_relation(
                              sub_instance, parent, item.d[key],
                              full_attr_name, whitelist_name, whitelist,
                              error_dict, made, validation_mode)
                     ELSE _set_non_list_relationship_obj(
                              sub_instance, FromEnd(attr_stack, 2).id,
                              Last(c_key_stack), item.d[key], full_attr_name,
                              whitelist_name, whitelist, error_dict, made,
                              validation_mode)
            IN /\ heap' = r.heap
               /\ error_dict' = r.errors
               /\ session' = db_session_add(session, sub_instance, r.success)
               /\ Descend(ObjRef(sub_instance))

\* lines 1000-1120
IdKey ==
    /\ Iterating
    /\ UNCHANGED return_value
    /\ IsSingleKey
    /\ Resolved.ok
    /\ ~(_is_add_key(key) \/ _is_set_key(key))
    /\ ~_is_remove_key(key)
    /\ ~_is_new_key(key)
    /\ _is_id_key(key)
    /\ processed' = Append(processed, full_attr_name)
    /\ UNCHANGED <<inputs, pc, exc, session>>
    /\ IF ~(/\ Len(class_attrs) >= 2
            /\ Len(attr_stack) >= 2
            /\ HasProperty(FromEnd(class_attrs, 2)))
       THEN /\ Fail("Invalid id reference.")
            /\ NoDescend
            /\ UNCHANGED heap
       ELSE
         LET primary_key_data == get_primary_key_dict(key)
         IN IF ~primary_key_data.ok
            THEN /\ Fail("Invalid id reference.")
                 /\ NoDescend
                 /\ UNCHANGED heap
            ELSE
              LET RecordClass == Prop(FromEnd(class_attrs, 2)).target
                  primary_key_names == get_alchemy_primary_keys(RecordClass)
                  owner == FromEnd(attr_stack, 2).id
                  query == _filter_by_primary_key(
                               RecordClass, primary_key_names,
                               primary_key_data.data, full_attr_name,
                               error_dict)
                  rows == FindByPrimaryKey(heap, RecordClass, query.filter)
                  attached == rows \cap WithParent(heap, owner, RecordClass)
                  found == CHOOSE o \in rows : TRUE
                  whitelist_name == _get_whitelist_name(c_key_stack)
                  r == IF ~query.ok
                       THEN [obj |-> 0] @@ Outcome(FALSE, query.errors, heap)
                       ELSE IF attached # {}
                       THEN [obj |-> CHOOSE o \in attached : TRUE]
                            @@ Outcome(TRUE, error_dict, heap)
                       ELSE IF rows = {}
                       THEN [obj |-> 0]
                            @@ Outcome(FALSE,
                                 _append_error(error_dict, full_attr_name,
                                     "A database race condition caused an unexpected error."),
                                 heap)
                       ELSE IF Prop(FromEnd(class_attrs, 2)).uselist
                       THEN [obj |-> found]
                            @@ _append_to_list_relation(
                                   found, parent, item.d[key], full_attr_name,
                                   whitelist_name, whitelist, error_dict,
                                   heap, validation_mode)
                       ELSE [obj |-> found]
                            @@ _set_non_list_relationship_obj(
                                   found, owner, Last(c_key_stack),
                                   item.d[key], full_attr_name,
                                   whitelist_name, whitelist, error_dict,
                                   heap, validation_mode)
              IN IF ~IsDict(item.d[key])
                 THEN /\ error_dict' =
                            _append_error(r.errors, full_attr_name,
                                "Attempted to set an object to a raw value.")
                      /\ heap' = r.heap
                      /\ NoDescend
                 ELSE IF ~r.success
                 THEN \* a dummy object for further validation
                      /\ error_dict' = r.errors
                      /\ heap' = Append(r.heap, NewInstance(RecordClass))
                      /\ Descend(ObjRef(Len(r.heap) + 1))
                 ELSE /\ error_dict' = r.errors
                      /\ heap' = r.heap
                      /\ Descend(ObjRef(r.obj))

\* a slip: the record a single valued relation points at comes into scope
attr_of_relation_current(hp, owner, relation_name, property) ==
    IF property.uselist THEN ListRef(owner.id, relation_name)
    ELSE IF hp[owner.id].one[relation_name] # 0
    THEN ObjRef(hp[owner.id].one[relation_name])
    ELSE NoneVal

\* lines 1160-1169: None for a relation that does not use a list, and
\* getattr(parent, c_key) otherwise
attr_of_relation(hp, owner, relation_name, property) ==
    IF ~property.uselist THEN NoneVal
    ELSE ListRef(owner.id, relation_name)

\* lines 1121-1180
PlainKey ==
    /\ Iterating
    /\ UNCHANGED return_value
    /\ IsSingleKey
    /\ Resolved.ok
    /\ ~(_is_add_key(key) \/ _is_set_key(key))
    /\ ~_is_remove_key(key)
    /\ ~_is_new_key(key)
    /\ ~_is_id_key(key)
    /\ processed' = Append(processed, full_attr_name)
    /\ UNCHANGED <<inputs, session>>
    /\ IF parent.t = "None"
       THEN /\ Fail("Attribute doesn't have a valid parent object.")
            /\ NoDescend
            /\ UNCHANGED <<pc, exc, heap>>
       ELSE IF IsColumn(Last(class_attrs))
       THEN /\ NoDescend
            /\ UNCHANGED <<pc, exc>>
            /\ LET whitelist_name ==
                       _get_whitelist_name(Append(c_key_stack, key))
                   value == convert_to_alchemy_type(
                                item.d[key], Prop(Last(class_attrs)).type)
               IN IF ~_is_whitelisted(whitelist_name, whitelist, "")
                  THEN /\ Fail("You do not have permission to modify this attribute.")
                       /\ UNCHANGED heap
                  ELSE IF value.t = "TypeError"
                  THEN /\ Fail("Unable to convert value to the proper type.")
                       /\ UNCHANGED heap
                  ELSE /\ UNCHANGED error_dict
                       /\ heap' =
                            IF validation_mode THEN heap
                            ELSE IF parent.t = "obj"
                                 THEN SetCol(heap, parent.id, key, value)
                                 ELSE \* setattr on the list object of a relation
                                      [heap EXCEPT
                                         ![parent.owner].lattr[parent.rel] =
                                             DictSet(@, key, value)]
       ELSE IF ~(Prop(Last(class_attrs)).uselist => parent.t = "obj")
       THEN \* getattr(a list, relation name): AttributeError
            /\ pc' = "crashed"
            /\ exc' = [t |-> "AttributeError"]
            /\ NoDescend
            /\ UNCHANGED <<error_dict, heap>>
       ELSE LET attr == attr_of_relation(heap, parent, key,
                                         Prop(Last(class_attrs)))
            IN /\ UNCHANGED <<pc, exc, heap>>
               /\ IF IsDict(item.d[key])
                  THEN /\ Descend(attr)
                       /\ UNCHANGED error_dict
                  ELSE /\ Fail("Attempted to set an object to a raw value.")
                       /\ NoDescend

\* lines 1181-1185
MultiKey ==
    /\ Iterating
    /\ UNCHANGED return_value
    /\ item.t = "dict"
    /\ Cardinality(DOMAIN item.d) # 1
    /\ LET keys == SortedSeq(DOMAIN item.d)
       IN update_stack' =
            Front(update_stack)
            \o [i \in 1..Len(keys) |-> Dict(keys[i] :> item.d[keys[i]])]
    /\ UNCHANGED <<inputs, pc, exc, key_stack, c_key_stack, attr_stack,
                   error_dict, heap, session, processed>>

\* lines 1186-1189: the error map is raised, or the instance is returned
\* to the caller: create_resource returns it (lines 471-473), update_resource
\* ends after its call (lines 690-699) and so returns None
Finish ==
    /\ pc = "walk"
    /\ update_stack = <<>>
    /\ IF error_dict # <<>>
       THEN /\ pc' = "raised"
            /\ exc' = [t |-> "errors", d |-> error_dict]
            /\ UNCHANGED <<session, return_value>>
       ELSE /\ pc' = "returned"
            /\ UNCHANGED exc
            /\ session' = IF entry = "create" /\ add_to_session
                          THEN Append(session, instance)
                          ELSE session
            /\ return_value' = IF entry = "create" THEN ObjRef(instance)
                               ELSE NoneVal
    /\ UNCHANGED <<inputs, update_stack, key_stack, c_key_stack, attr_stack,
                   error_dict, heap, processed>>

Next ==
    \/ UpdateResource
    \/ CreateResource
    \/ TooComplex
    \/ PopMarker
    \/ InvalidAttributeName
    \/ AddOrSetKey
    \/ RemoveKey
    \/ NewKey
    \/ IdKey
    \/ PlainKey
    \/ MultiKey
    \/ Finish

(***************************************************************************)
(* The runs explored: the rows of the backing store, the update maps and   *)
(* the arguments of update_resource and create_resource.                   *)
(***************************************************************************)
\* object ids of the rows, their positions in heap
Ids == [album |-> 1, artist_attached |-> 2, artist_free |-> 3,
        track_attached |-> 4, track_free |-> 5, track_other |-> 6]
AlbumRow == Ids.album
ArtistAttached == Ids.artist_attached
ArtistFree == Ids.artist_free
TrackAttached == Ids.track_attached
TrackFree == Ids.track_free
TrackOther == Ids.track_other

Row(cls, cols, one, many) ==
    [cls |-> cls, stored |-> TRUE, cols |-> cols, one |-> one, many |-> many,
     lattr |-> [r \in DOMAIN many |-> <<>>]]

\* album 1 with tracks 1 and 3 and, when artist0 is not 0, artist 1
Rows(artist0) ==
    << Row("Album", [album_id |-> IntVal(1), title |-> StrVal("Old")],
           [artist |-> artist0], [tracks |-> <<TrackAttached, TrackOther>>]),
       Row("Artist", [artist_id |-> IntVal(1), name |-> StrVal("AC/DC")],
           <<>>, <<>>),
       Row("Artist", [artist_id |-> IntVal(2), name |-> StrVal("Accept")],
           <<>>, <<>>),
       Row("Track", [track_id |-> IntVal(1), name |-> StrVal("One")],
           <<>>, <<>>),
       Row("Track", [track_id |-> IntVal(2), name |-> StrVal("Two")],
           <<>>, <<>>),
       Row("Track", [track_id |-> IntVal(3), name |-> StrVal("Three")],
           <<>>, <<>>) >>

\* the entries an update map is made of: <<key, raw value>>
BaseKeys ==
    << <<"title", "New">>, <<"album_id", "x">>, <<"bogus", "1">>,
       <<"page", "2">>, <<"artist", "5">>, <<"artist.name", "N">>, <<"artist.bogus", "1">>,
       <<"tracks.bogus", "1">>, <<"tracks.name", "N">>,
       <<"tracks.$remove", "true">>,
       <<"tracks.$id:track_id=1.$add", "true">>,
       <<"tracks.$id:track_id=1.$remove", "true">>,
       <<"tracks.$id:track_id=1.name", "N">>,
       <<"tracks.$id:track_id=1.$remove", "false">>,
       <<"tracks.$id:track_id=2.$add", "true">>,
       <<"tracks.$id:track_id=2.$remove", "true">>,
       <<"tracks.$id:track_id=2.name", "N">>,
       <<"tracks.$id:track_id=9.$add", "true">>,
       <<"tracks.$id:track_id=9.name", "N">>,
       <<"tracks.$new0.$add", "true">>, <<"tracks.$new0.name", "N">>,
       <<"tracks.$new0.bogus", "1">>,
       <<"tracks.$id:track_id=2.$add", "false">>,
       <<"tracks.$id:track_id=2._add_", "1">>,
       <<"tracks.$id:track_id=2", "5">>,
       <<"tracks.$id:track_id.name", "N">>,
       <<"artist.$id:artist_id=1.$remove", "true">>,
       <<"artist.$id:artist_id=1.name", "N">>,
       <<"artist.$id:artist_id=1._remove_", "false">>,
       <<"artist.$id:artist_id=2.$set", "true">>,
       <<"artist.$id:artist_id=2.$remove", "true">>,
       <<"artist.$id:artist_id=2.name", "N">>,
       <<"artist.$id:artist_id=2.$add", "true">>,
       <<"artist.$id:artist_id=2.$set", "false">>,
       <<"artist.$new.$set", "true">>, <<"artist.$new.name", "N">> >>

Mentions(names) ==
    LET Among(e) == e[1] \in names IN SelectSeq(BaseKeys, Among)

\* the entries tried under a whitelist
WhitelistKeys ==
    Mentions({"title", "tracks.name", "tracks.bogus", "artist.name",
              "tracks.$id:track_id=1.name", "tracks.$id:track_id=1.$remove",
              "tracks.$id:track_id=2.$add", "tracks.$id:track_id=2.name",
              "tracks.$id:track_id=2.$remove",
              "tracks.$new0.$add", "tracks.$new0.name",
              "artist.$id:artist_id=1.$remove",
              "artist.$id:artist_id=2.$set", "artist.$id:artist_id=2.name",
              "artist.$new.$set", "artist.$new.name"})

\* the entries tried under a stack size limit
LimitKeys ==
    Mentions({"title", "bogus", "tracks.name", "artist.name",
              "tracks.$id:track_id=2.$add", "tracks.$id:track_id=2.name",
              "tracks.$new0.name", "artist.$id:artist_id=2.$set"})

\* the entries tried with create_resource and without add_to_session
SessionKeys ==
    Mentions({"title", "album_id", "tracks.$new0.$add", "tracks.$new0.name",
              "tracks.$id:track_id=2.$add", "artist.$id:artist_id=2.$set",
              "artist.$new.$set", "artist.$new.name"})

\* the entries tried on an album without an artist
ArtistKeys ==
    LET OfArtist(e) == StartsWith(e[1], "artist") IN SelectSeq(BaseKeys, OfArtist)

\* the entries tried on the single valued relation under its whitelists
ArtistSetKeys ==
    Mentions({"artist.$id:artist_id=2.$set", "artist.$id:artist_id=2.$add",
              "artist.$id:artist_id=2.name", "artist.$id:artist_id=1.$remove",
              "artist.$new.$set"})

\* entries with a raw value where a relation, or a token of one, stands
RawKeys ==
    << <<"title", "New">>, <<"artist", "5">>, <<"tracks", "1">>,
       <<"tracks.$id:track_id=1", "5">>, <<"tracks.$id:track_id=2", "1">>,
       <<"tracks.$new0", "5">>, <<"artist.$id:artist_id=2", "1">>,
       <<"artist.$new", "5">> >>

\* entries under an identity token that names no record or does not parse
UnresolvedKeys ==
    << <<"tracks.$id:track_id=9.name", "N">>,
       <<"tracks.$id:track_id=9.bogus", "1">>,
       <<"tracks.$id:track_id=9.$remove", "true">>,
       <<"artist.$id:artist_id=9.name", "N">>,
       <<"artist.$id:artist_id=9.$remove", "true">>,
       <<"tracks.$id:track_id.bogus", "1">>,
       <<"tracks.$id:track_id=x.name", "N">> >>

Reverse(q) == [i \in 1..Len(q) |-> q[Len(q) + 1 - i]]

\* the flat maps of at most MaxKeys entries of keys.  The order of the keys
\* matters to the tree only when one key is a dotted prefix of another:
\* those maps are taken in both orders, the others in the order of keys.
MapsOver(keys) ==
    LET picks == UNION { { f \in [1..k -> 1..Len(keys)] :
                             \A i \in 1..(k - 1) : f[i] < f[i + 1] }
                         : k \in 0..MaxKeys }
        ordered == { [i \in 1..Len(f) |->
                         <<keys[f[i]][1], Val(keys[f[i]][2])>>] : f \in picks }
        unique == { m \in ordered : UniqueKeys(m) }
    IN unique \cup { Reverse(m) : m \in { x \in unique : ~PrefixFree(x) } }

BaseMaps == MapsOver(BaseKeys)
WhitelistMaps == MapsOver(WhitelistKeys)
LimitMaps == MapsOver(LimitKeys)
SessionMaps == MapsOver(SessionKeys)
ArtistMaps == MapsOver(ArtistKeys)
ArtistSetMaps == MapsOver(ArtistSetKeys)
RawMaps == MapsOver(RawKeys)
UnresolvedMaps == MapsOver(UnresolvedKeys)

ListOf(s) == [t |-> "list", s |-> s]

Whitelists ==
    { ListOf({}), ListOf({"tracks"}), ListOf({"tracks.$add"}),
      ListOf({"tracks.$create", "tracks.$add"}),
      ListOf({"tracks.$create", "tracks.$add", "tracks.name"}),
      ListOf({"tracks.$remove"}), ListOf({"artist.$set", "artist.name"}),
      ListOf({"tracks.$id.name", "tracks.$new"}),
      ListOf({"title", "artist.$remove"}) }

\* the whitelists tried on the single valued relation
ArtistWhitelists ==
    { ListOf({"artist"}), ListOf({"artist.$add"}), ListOf({"artist.$remove"}),
      ListOf({"artist.$remove", "artist.$add"}),
      ListOf({"artist.$create", "artist.$set"}) }

Limits == { [t |-> "int", n |-> n] : n \in 0..MaxLimit }

Run(wl, add, limit, vmode, e, artist0, maps) ==
    [whitelist |-> wl, add_to_session |-> add, stack_size_limit |-> limit,
     validation_mode |-> vmode, entry |-> e, artist0 |-> artist0,
     maps |-> maps]

\* the argument combinations explored, each with its update maps
Runs ==
    { Run(NoneVal, TRUE, NoneVal, v, "update", ArtistAttached, BaseMaps) :
        v \in BOOLEAN }
    \cup { Run(NoneVal, TRUE, NoneVal, v, "update", 0, ArtistMaps) :
             v \in BOOLEAN }
    \cup { Run(w, TRUE, NoneVal, FALSE, "update", ArtistAttached,
               WhitelistMaps) : w \in Whitelists }
    \cup { Run(w, TRUE, NoneVal, FALSE, "update", a, ArtistSetMaps) :
             w \in ArtistWhitelists, a \in {0, ArtistAttached} }
    \cup { Run(w, TRUE, NoneVal, v, "update", ArtistAttached, RawMaps) :
             w \in {NoneVal, ListOf({})}, v \in BOOLEAN }
    \cup { Run(w, TRUE, NoneVal, v, "update", ArtistAttached,
               UnresolvedMaps) : w \in {NoneVal, ListOf({})}, v \in BOOLEAN }
    \cup { Run(NoneVal, TRUE, l, FALSE, "update", ArtistAttached, LimitMaps) :
             l \in Limits }
    \cup { Run(NoneVal, FALSE, NoneVal, FALSE, "update", ArtistAttached,
               SessionMaps) }
    \cup { Run(NoneVal, a, NoneVal, v, "create", ArtistAttached, SessionMaps) :
             a, v \in BOOLEAN }

Init ==
    /\ \E r \in Runs :
          /\ params \in r.maps
          /\ whitelist = r.whitelist
          /\ add_to_session = r.add_to_session
          /\ stack_size_limit = r.stack_size_limit
          /\ validation_mode = r.validation_mode
          /\ entry = r.entry
          /\ heap = Rows(r.artist0)
    /\ instance = IF entry = "update" THEN AlbumRow ELSE 0
    /\ pc = "start"
    /\ update_stack = <<>>
    /\ key_stack = <<>>
    /\ c_key_stack = <<>>
    /\ attr_stack = <<>>
    /\ error_dict = <<>>
    /\ session = <<>>
    /\ exc = NoneVal
    /\ return_value = NoneVal
    /\ processed = <<>>
    /\ probe = NoProbe
    /\ probe_out = NoResult

Spec == Init /\ [][Next]_vars

(***************************************************************************)
(* Paging: parse_offset_limit (parser.py) and the offset and limit of      *)
(* get_collection (resource.py, query_builder.py).  A query parameter is   *)
(* absent (None) or a text; a page size or a limit is None or an integer.  *)
(***************************************************************************)
\* int(text): a ValueError unless the text is an optionally signed number
IsIntText(s) ==
    \/ IsNumeric(s)
    \/ Len(s) > 1 /\ SubSeq(s, 1, 1) \in {"-", "+"}
                  /\ IsNumeric(SubSeq(s, 2, Len(s)))
IntOfText(s) ==
    IF IsNumeric(s) THEN ParseInt(s)
    ELSE IF SubSeq(s, 1, 1) = "-" THEN 0 - ParseInt(SubSeq(s, 2, Len(s)))
    ELSE ParseInt(SubSeq(s, 2, Len(s)))
DigitText(n) == SubSeq(Digits, n + 1, n + 1)

\* the truth value Python gives an argument: None, "" and 0 are false
PyBool(v) ==
    CASE v.t = "None" -> FALSE
      [] v.t = "str" -> Len(v.v) > 0
      [] v.t = "int" -> v.n # 0

OffsetLimitInfo(offset, limit) ==
    [t |-> "OffsetLimitInfo", offset |-> offset, limit |-> limit]
OffsetLimitParseError(msg) == [t |-> "OffsetLimitParseError", msg |-> msg]
\* Python 3 refuses to order None and an integer
NoneOrderingError == [t |-> "TypeError", msg |-> "unorderable types"]
IsRaised(v) == v.t \in {"OffsetLimitParseError", "TypeError"}

\* parser.py lines 103-111: the limit, the page size when none is usable
parse_limit(query_params, page_max_size, strict) ==
    IF ~PyBool(query_params.limit) THEN page_max_size
    ELSE IF IsIntText(query_params.limit.v)
         THEN IntVal(IntOfText(query_params.limit.v))
    ELSE IF strict
         THEN OffsetLimitParseError("Provided limit must be an integer.")
    ELSE page_max_size

\* parser.py lines 112-133: the page; the comparison of line 128 runs on the
\* None that line 127 has just assigned, which Python 2 orders below every
\* integer and Python 3 refuses to order
parse_page(query_params, page_max_size, limit, strict, python3) ==
    IF query_params.page = NoneVal THEN NoneVal
    ELSE IF ~IsIntText(query_params.page.v)
         THEN OffsetLimitParseError("The page value provided can not be converted to an integer.")
    ELSE LET n == IntOfText(query_params.page.v)
             unsized == n > 1 /\ page_max_size = NoneVal /\ limit = NoneVal
         IN IF unsized /\ strict
            THEN OffsetLimitParseError("Page greater than 1 provided without a page max size.")
            ELSE IF unsized
                 THEN (IF python3 THEN NoneOrderingError ELSE NoneVal)
            ELSE IF n < 1
                 THEN (IF strict
                       THEN OffsetLimitParseError("Page number can not be less than 1.")
                       ELSE NoneVal)
            ELSE IntVal(n)

\* parser.py lines 134-143: the offset, 0 when none is usable
parse_offset(query_params, strict) ==
    IF ~PyBool(query_params.offset) THEN IntVal(0)
    ELSE IF IsIntText(query_params.offset.v)
         THEN IntVal(IntOfText(query_params.offset.v))
    ELSE IF strict
         THEN OffsetLimitParseError("Provided offset must be an integer.")
    ELSE IntVal(0)

\* parser.py lines 64-154
parse_offset_limit(query_params, page_max_size, strict, python3) ==
    LET limit == parse_limit(query_params, page_max_size, strict)
    IN IF IsRaised(limit) THEN limit
       ELSE
       LET page == parse_page(query_params, page_max_size, limit, strict,
                              python3)
       IN IF IsRaised(page) THEN page
          ELSE
          LET offset == parse_offset(query_params, strict)
          IN IF IsRaised(offset) THEN offset
             ELSE
             LET too_high == PyBool(page_max_size) /\ limit.n > page_max_size.n
                 capped == IF too_high THEN page_max_size ELSE limit
                 size == IF capped # NoneVal /\ page_max_size = NoneVal
                         THEN capped ELSE page_max_size
             IN IF too_high /\ strict
                THEN OffsetLimitParseError("Provided limit may not be higher than the max page size.")
                ELSE OffsetLimitInfo(
                         IF page # NoneVal /\ page.n > 1
                         THEN IntVal((page.n - 1) * size.n) ELSE offset,
                         capped)

\* the query parameters tried: each of page, offset and limit absent or a
\* text, a number or not
ParamTexts ==
    {"x", "", "-1"} \cup { DigitText(n) : n \in 0..MaxPageNumber }
ParamValues == {NoneVal} \cup { StrVal(s) : s \in ParamTexts }
PageSizes == {NoneVal} \cup { IntVal(n) : n \in 0..MaxPageNumber }
OffsetLimitProbes ==
    { [fn |-> "offset_limit",
       query_params |-> [page |-> p, offset |-> o, limit |-> l],
       page_max_size |-> m, strict |-> s, python3 |-> v] :
        p \in ParamValues, o \in ParamValues, l \in ParamValues,
        m \in PageSizes, s \in BOOLEAN, v \in BOOLEAN }

BadRequestException(msg) == [t |-> "BadRequestException", msg |-> msg]
\* int(v) for an argument that is an integer already or a text
IsIntArg(v) == v.t = "int" \/ (v.t = "str" /\ IsIntText(v.v))
IntOfArg(v) == IF v.t = "int" THEN v.n ELSE IntOfText(v.v)

\* query_builder.py lines 56-75: the query with its offset and limit, or the
\* ValueError of int() on a text that is no number
apply_offset_and_limit(query, offset, limit) ==
    IF \/ offset # NoneVal /\ ~IsIntArg(offset)
       \/ limit # NoneVal /\ ~IsIntArg(limit)
    THEN [t |-> "ValueError"]
    ELSE [t |-> "query", stored |-> query.stored,
          offset |-> IF offset = NoneVal THEN NoneVal
                     ELSE IntVal(IntOfArg(offset)),
          limit |-> IF limit = NoneVal THEN NoneVal
                    ELSE IntVal(IntOfArg(limit))]

\* query.all(): the records left after the offset, the first `limit` of them
QueryAll(query) ==
    LET skipped == IF query.offset = NoneVal THEN 0 ELSE query.offset.n
        left == IF query.stored > skipped THEN query.stored - skipped ELSE 0
    IN IF query.limit = NoneVal \/ query.limit.n > left THEN left
       ELSE query.limit.n

\* resource.py lines 755-767: the limit as an integer
collection_limit(limit, strict, page_max_size) ==
    IF limit = NoneVal THEN NoneVal
    ELSE IF IsIntArg(limit) THEN IntVal(IntOfArg(limit))
    ELSE IF strict
         THEN BadRequestException("The limit provided can not be converted to an integer.")
    ELSE page_max_size

\* resource.py lines 780-791: the offset as an integer
collection_offset(offset, strict) ==
    IF ~PyBool(offset) THEN offset
    ELSE IF IsIntArg(offset) THEN IntVal(IntOfArg(offset))
    ELSE IF strict
         THEN BadRequestException("The offset provided can not be converted to an integer.")
    ELSE IntVal(0)

\* resource.py lines 687-804, with filters, fields, embeds and sorts left at
\* None: the number of records returned for a query matching `stored`
\* records, or the BadRequestException raised
get_collection(stored, offset, limit, strict, page_max_size) ==
    LET as_int == collection_limit(limit, strict, page_max_size)
    IN IF as_int.t = "BadRequestException" THEN as_int
       ELSE
       LET too_high == /\ as_int # NoneVal
                       /\ page_max_size.t = "int"
                       /\ as_int.n > page_max_size.n
           capped == IF too_high THEN page_max_size ELSE as_int
           from == collection_offset(offset, strict)
       IN IF too_high /\ strict
          THEN BadRequestException("The limit provided is greater than the max page size allowed.")
          ELSE IF from.t = "BadRequestException" THEN from
          ELSE LET query == apply_offset_and_limit([stored |-> stored],
                                                   from, capped)
               IN IF query.t = "ValueError"
                  THEN BadRequestException("The provided offset and limit can not be applied to the query.")
                  ELSE [t |-> "records", n |-> QueryAll(query),
                        limit |-> query.limit, offset |-> query.offset]

\* the arguments tried: None, a text that is no number, a number as an
\* integer or as a text
ArgValues ==
    {NoneVal, StrVal("x"), StrVal("")}
    \cup { IntVal(n) : n \in 0..MaxPageNumber }
    \cup { StrVal(DigitText(n)) : n \in 0..MaxPageNumber }
CollectionProbes ==
    { [fn |-> "get_collection", stored |-> n, offset |-> o, limit |-> l,
       strict |-> s, page_max_size |-> m] :
        n \in 0..MaxRecords, o \in ArgValues, l \in ArgValues,
        s \in BOOLEAN, m \in PageSizes }

(***************************************************************************)
(* The pure functions, applied to one input each.                          *)
(***************************************************************************)
WalkIdle ==
    /\ params = <<>>
    /\ whitelist = NoneVal
    /\ add_to_session = TRUE
    /\ stack_size_limit = NoneVal
    /\ validation_mode = FALSE
    /\ entry = "none"
    /\ instance = 0
    /\ pc = "idle"
    /\ update_stack = <<>>
    /\ key_stack = <<>>
    /\ c_key_stack = <<>>
    /\ attr_stack = <<>>
    /\ error_dict = <<>>
    /\ heap = <<>>
    /\ session = <<>>
    /\ exc = NoneVal
    /\ return_value = NoneVal
    /\ processed = <<>>

InitPure ==
    /\ WalkIdle
    /\ probe \in ClassifyProbes \cup SplitProbes \cup WhitelistProbes
                \cup PermissionProbes \cup PrimaryKeyProbes
                \cup OffsetLimitProbes \cup CollectionProbes
    /\ probe_out = NoResult

ApplyClassify ==
    /\ probe.fn = "classify"
    /\ probe_out = NoResult
    /\ probe_out' = [t |-> "classify",
                     hits |-> (IF _is_id_key(probe.key) THEN {"id"} ELSE {})
                         \cup (IF _is_new_key(probe.key) THEN {"new"} ELSE {})
                         \cup (IF _is_add_key(probe.key) THEN {"add"} ELSE {})
                         \cup (IF _is_remove_key(probe.key) THEN {"remove"} ELSE {})
                         \cup (IF _is_set_key(probe.key) THEN {"set"} ELSE {})]
    /\ UNCHANGED <<probe, walk_vars>>

ApplySplit ==
    /\ probe.fn = "split"
    /\ probe_out = NoResult
    /\ probe_out' = [t |-> "split",
                     tree |-> _split_dict_params(probe.update_params)]
    /\ UNCHANGED <<probe, walk_vars>>

ApplyWhitelisted ==
    /\ probe.fn = "whitelisted"
    /\ probe_out = NoResult
    /\ probe_out' =
         [t |-> "whitelisted",
          r1 |-> _is_whitelisted(probe.name, [t |-> "list", s |-> probe.W1],
                                 probe.verb),
          r2 |-> _is_whitelisted(probe.name,
                                 [t |-> "list", s |-> probe.W1 \cup probe.extra],
                                 probe.verb),
          rNone |-> _is_whitelisted(probe.name, NoneVal, probe.verb)]
    /\ UNCHANGED <<probe, walk_vars>>

\* the permission asked for a key stack, as lines 898-899 ask for it, and
\* for the stack with other values in its tokens
ApplyPermission ==
    /\ probe.fn = "permission"
    /\ probe_out = NoResult
    /\ LET name_stack == Fill(probe.shape, probe.one)
           other_stack == Fill(probe.shape, probe.other)
           Asked(stack, wl) ==
               _is_whitelisted(_get_whitelist_name(stack), wl, probe.verb)
       IN probe_out' =
            [t |-> "permission",
             name_stack |-> name_stack,
             other_stack |-> other_stack,
             name |-> _get_whitelist_name(name_stack),
             other_name |-> _get_whitelist_name(other_stack),
             granted |-> Asked(name_stack, ListOf(probe.W)),
             other_granted |-> Asked(other_stack, ListOf(probe.W)),
             granted_none |-> Asked(name_stack, NoneVal),
             other_granted_none |-> Asked(other_stack, NoneVal)]
    /\ UNCHANGED <<probe, walk_vars>>

\* lines 1013-1021: get_primary_key_dict on a key that _is_id_key accepts
ApplyPrimaryKeyDict ==
    /\ probe.fn = "primary_key"
    /\ probe_out = NoResult
    /\ _is_id_key(probe.id_string)
    /\ probe_out' = [t |-> "primary_key",
                     r |-> get_primary_key_dict(probe.id_string)]
    /\ UNCHANGED <<probe, walk_vars>>

\* parser.py lines 64-154, under either interpreter
ApplyOffsetLimit ==
    /\ probe.fn = "offset_limit"
    /\ probe_out = NoResult
    /\ probe_out' = [t |-> "offset_limit",
                     r |-> parse_offset_limit(probe.query_params,
                                              probe.page_max_size,
                                              probe.strict, probe.python3)]
    /\ UNCHANGED <<probe, walk_vars>>

\* resource.py lines 687-804
ApplyGetCollection ==
    /\ probe.fn = "get_collection"
    /\ probe_out = NoResult
    /\ probe_out' = [t |-> "get_collection",
                     r |-> get_collection(probe.stored, probe.offset,
                                          probe.limit, probe.strict,
                                          probe.page_max_size)]
    /\ UNCHANGED <<probe, walk_vars>>

NextPure ==
    \/ ApplyClassify
    \/ ApplySplit
    \/ ApplyWhitelisted
    \/ ApplyPermission
    \/ ApplyPrimaryKeyDict
    \/ ApplyOffsetLimit
    \/ ApplyGetCollection

SpecPure == InitPure /\ [][NextPure]_vars

(***************************************************************************)
(* Claims about the pure functions (checked under SpecPure).               *)
(***************************************************************************)
SplitDone == probe_out.t = "split"

RoundTrip ==
    /\ probe_out.tree.t = "dict"
    /\ Flatten(probe_out.tree, "") = KeysOf(probe.update_params)

\* C5 (as stated): for every flat map with unique dotted keys, whatever prefix
\* relations hold between the keys, _split_dict_params succeeds and the
\* dotted paths of the leaves of the built tree are exactly the keys.
C5_RoundTripAnyKeys == SplitDone => RoundTrip

\* C5 (amended): for every flat map with unique dotted keys none of which is
\* a proper dotted prefix of another, _split_dict_params succeeds and the
\* dotted paths of the leaves of the built tree are exactly the keys.
C5_RoundTripPrefixFree ==
    (SplitDone /\ PrefixFree(probe.update_params)) => RoundTrip

C5_Witness ==
    /\ SplitDone
    /\ KeysOf(probe.update_params) = {"a.b", "a.c", "b.a"}
    /\ RoundTrip

\* C6: _is_whitelisted is monotone in the whitelist (true for W1 implies true
\* for W1 plus more entries), and is true for every name and verb when the
\* whitelist is None.
C6_WhitelistMonotone ==
    probe_out.t = "whitelisted" =>
        /\ probe_out.r1 => probe_out.r2
        /\ probe_out.rNone

C6_Witness ==
    /\ probe_out.t = "whitelisted"
    /\ probe.name = "tracks.$id"
    /\ probe.verb = "add"
    /\ probe.W1 = {"tracks.$add"}
    /\ probe.extra = {"tracks.name"}
    /\ probe_out.r1
    /\ probe_out.r2

ClassifyDone == probe_out.t = "classify"

\* the underscore spellings of the control tokens are Python identifiers
UnderscoreToken(name) ==
    name \in {"_add_", "_remove_", "_set_"} \/ StartsWith(name, "_new_")

\* C7 (as stated): for every string at most one of the five classifiers is
\* true, and for every string that is a valid attribute name none is true.
C7_ExclusiveAndNoAttribute ==
    ClassifyDone =>
        /\ Cardinality(probe_out.hits) <= 1
        /\ IsIdentifier(probe.key) => probe_out.hits = {}

\* C7 (amended): for every string at most one of the five classifiers is
\* true, and none is true for a valid attribute name other than _add_,
\* _remove_, _set_ and the names that start with _new_.
C7_ExclusiveAndNoPlainAttribute ==
    ClassifyDone =>
        /\ Cardinality(probe_out.hits) <= 1
        /\ (IsIdentifier(probe.key) /\ ~UnderscoreToken(probe.key))
              => probe_out.hits = {}

C7_Witness ==
    /\ ClassifyDone
    /\ probe.key = "id_"
    /\ IsIdentifier(probe.key)
    /\ probe_out.hits = {}

(***************************************************************************)
(* Properties of the walk.                                                 *)
(***************************************************************************)
\* the run ended the way _set_record_attrs ends: a return or the error map
Finished == pc \in {"returned", "raised"}

FirstSegment(path) == Split(path, ".")[1]
LastSegment(path) == Last(Split(path, "."))
ParentPath(path) == Join(Front(Split(path, ".")), ".")
IsVerb(segment) ==
    _is_add_key(segment) \/ _is_remove_key(segment) \/ _is_set_key(segment)
IsPlain(segment) ==
    ~IsVerb(segment) /\ ~_is_id_key(segment) /\ ~_is_new_key(segment)
Handled == { processed[i] : i \in 1..Len(processed) }

\* C1: at a node with several keys every verb key ($add, _add_, $remove,
\* _remove_, $set, _set_) is processed before any plain attribute key of
\* that node: no plain key is handled before a verb key with the same parent.
C1_VerbsBeforePlainKeys ==
    \A i, k \in 1..Len(processed) :
        (/\ i < k
         /\ IsVerb(LastSegment(processed[k]))
         /\ ParentPath(processed[i]) = ParentPath(processed[k]))
        => ~IsPlain(LastSegment(processed[i]))

\* a path with a segment that get_class_attributes cannot resolve
InvalidPath(path) ==
    ~get_class_attributes(RootClass, RootClass \o "." \o path).ok
RootAttribute(path) == FirstSegment(path) \in DOMAIN Schema[RootClass]
\* an error is recorded under the path or under the ancestor segment at
\* which the walk stopped descending
Reported(errors, path) ==
    \E p \in DOMAIN errors : p = path \/ DottedPrefix(p, path)

C4_LimitAborts ==
    [][ /\ (/\ pc = "walk"
            /\ stack_size_limit.t = "int"
            /\ Len(update_stack) > stack_size_limit.n)
           => /\ pc' = "too_complex"
              /\ exc' = [t |-> "message", v |-> "This update is too complex."]
              /\ processed' = processed
              /\ heap' = heap
              /\ error_dict' = error_dict
        /\ pc' = "too_complex"
           => /\ stack_size_limit.t = "int"
              /\ Len(update_stack) > stack_size_limit.n ]_vars

\* C8: in validation mode update_resource changes nothing: no step of the
\* run changes a record that exists (its scalar attributes, its relations)
\* and no step adds to the session.
C8_ValidationChangesNothing ==
    [][ (validation_mode /\ entry = "update")
        => /\ session' = session
           /\ \A o \in 1..Len(heap) : heap'[o] = heap[o] ]_vars

C8_Witness ==
    /\ validation_mode
    /\ entry = "update"
    /\ pc = "returned"
    /\ Handled = {"title", "tracks", "tracks.$id:track_id=2",
                  "tracks.$id:track_id=2.$add"}
    /\ heap[AlbumRow].many.tracks = <<TrackAttached, TrackOther>>
    /\ heap[AlbumRow].cols.title = StrVal("Old")

\* the identity token of the stored track that is in no collection
FreeToken == "$id:track_id=2"
FreePath == "tracks." \o FreeToken
\* the next node handled is that token, under the relation tracks
AtFreeToken ==
    /\ Iterating
    /\ item.t = "dict"
    /\ DOMAIN item.d = {FreeToken}
    /\ key_stack = <<"tracks">>
Truthy(node, names) ==
    /\ node.t = "dict"
    /\ \E n \in names :
          /\ n \in DOMAIN node.d
          /\ \E v \in {"True", "true", "1"} : node.d[n] = Val(v)
\* the whitelist has one of the entries that permit verb on tracks: the
\* permission of a token is asked for the relation, an entry that names the
\* token ("tracks.$new") does not give it
Permits(token, verb) ==
    \/ whitelist.t = "None"
    \/ /\ whitelist.t = "list"
       /\ \E e \in {"", ".$" \o verb, "._" \o verb \o "_"} :
             ("tracks" \o e) \in whitelist.s
TracksOf(hp) == hp[instance].many.tracks
ErrorsAt(errors, path) == IF path \in DOMAIN errors THEN errors[path] ELSE <<>>

\* C9 as stated: the free record is appended exactly when its identity node
\* has a true add marker and add is whitelisted; otherwise the collection
\* is unchanged and exactly one error is recorded under the token's path.
C9_AppendIffMarkedAndPermitted ==
    [][ (AtFreeToken /\ ~SeqContains(TracksOf(heap), TrackFree))
        => IF Truthy(item.d[FreeToken], {"$add", "_add_"})
              /\ Permits("$id", "add")
           THEN TracksOf(heap') = Append(TracksOf(heap), TrackFree)
           ELSE /\ TracksOf(heap') = TracksOf(heap)
                /\ Len(ErrorsAt(error_dict', FreePath))
                     = Len(ErrorsAt(error_dict, FreePath)) + 1 ]_vars

\* C9, amended: outside validation mode the free record is appended exactly
\* when its identity node has a true add marker and add is whitelisted, and
\* in validation mode it is never appended; with marker and permission no
\* error is recorded; otherwise the collection is unchanged and the
\* token's path gets one error when the node is a nested map and two (the
\* missing add and the raw value) when the node is a raw value.
C9_AppendIffMarkedPermittedAndMutating ==
    [][ (AtFreeToken /\ ~SeqContains(TracksOf(heap), TrackFree))
        => IF Truthy(item.d[FreeToken], {"$add", "_add_"})
              /\ Permits("$id", "add")
           THEN /\ TracksOf(heap') =
                     IF validation_mode THEN TracksOf(heap)
                     ELSE Append(TracksOf(heap), TrackFree)
                /\ error_dict' = error_dict
           ELSE /\ TracksOf(heap') = TracksOf(heap)
                /\ Len(ErrorsAt(error_dict', FreePath))
                     = Len(ErrorsAt(error_dict, FreePath))
                       + (IF item.d[FreeToken].t = "dict" THEN 1 ELSE 2)
                /\ \A p \in DOMAIN error_dict' :
                      p # FreePath => p \in DOMAIN error_dict ]_vars

C9_Witness ==
    /\ pc = "returned"
    /\ whitelist = ListOf({"tracks.$add"})
    /\ FreePath \in Handled
    /\ TracksOf(heap) = <<TrackAttached, TrackOther, TrackFree>>

\* the new-token node of the runs, under the list valued relation tracks
NewPath == "tracks.$new0"
HasNewNode == \E k \in KeysOf(params) : DottedPrefix(NewPath, k)
NewMarked ==
    \E i \in 1..Len(params) :
        /\ params[i][1] \in {NewPath \o ".$add", NewPath \o "._add_"}
        /\ \E v \in {"True", "true", "1"} : params[i][2] = Val(v)
NameGiven == (NewPath \o ".name") \in KeysOf(params)
\* the new records in the collection, and in the session
NewInTracks ==
    { i \in 1..Len(TracksOf(heap)) : ~heap[TracksOf(heap)[i]].stored }
NewInSession ==
    { i \in 1..Len(session) :
        heap[session[i]].cls = "Track" /\ ~heap[session[i]].stored }
\* one new record, appended, registered once, its name set from the child
AppendedAndRegistered(named, times) ==
    /\ Cardinality(NewInTracks) = 1
    /\ Cardinality(NewInSession) = times
    /\ \A i \in NewInTracks :
          /\ \A k \in NewInSession : session[k] = TracksOf(heap)[i]
          /\ heap[TracksOf(heap)[i]].cls = "Track"
          /\ (heap[TracksOf(heap)[i]].cols.name = StrVal("N")) <=> named

\* C10 as stated: the new record is created, appended with its scalar
\* fields set from the children and registered exactly once, exactly when
\* create and add are whitelisted on the relation and the node has a true
\* add marker; otherwise nothing is appended and nothing is registered.
C10_NewRecordIffPermitted ==
    (Finished /\ HasNewNode) =>
      IF Permits("$new", "create") /\ Permits("$new", "add") /\ NewMarked
      THEN AppendedAndRegistered(NameGiven, 1)
      ELSE NewInTracks = {} /\ NewInSession = {}

\* C10, amended: outside validation mode the new record is appended exactly
\* when create and add are whitelisted on the relation and the node has a
\* true add marker; it is then registered once when add_to_session is set
\* and not at all otherwise, and a scalar child is set on it exactly when
\* the whitelist permits to modify that field; in every other case, and
\* always in validation mode, nothing is appended and nothing registered.
C10_NewRecordIffPermittedAndMutating ==
    (Finished /\ HasNewNode) =>
      IF /\ Permits("$new", "create") /\ Permits("$new", "add") /\ NewMarked
         /\ ~validation_mode
      THEN AppendedAndRegistered(
               NameGiven /\ (\/ whitelist.t = "None"
                             \/ whitelist.s \cap {"tracks.name",
                                                  "tracks.$new.name"} # {}),
               IF add_to_session THEN 1 ELSE 0)
      ELSE NewInTracks = {} /\ NewInSession = {}

C10_Witness ==
    /\ pc = "raised"
    /\ whitelist = ListOf({"tracks.$create", "tracks.$add"})
    /\ KeysOf(params) = {NewPath \o ".$add", NewPath \o ".name"}
    /\ Cardinality(NewInTracks) = 1
    /\ Cardinality(NewInSession) = 1
    /\ \A i \in NewInTracks : heap[TracksOf(heap)[i]].cols.name = NoneVal

\* the token nodes of the runs under the single valued relation artist, and
\* the record each of them names
ArtistTokens == {"$id:artist_id=1", "$id:artist_id=2", "$new"}
ArtistOf(hp) == hp[instance].one.artist
ArtistTarget ==
    CASE key = "$id:artist_id=1" -> ArtistAttached
      [] key = "$id:artist_id=2" -> ArtistFree
      [] OTHER -> Len(heap) + 1
\* the next node handled is such a token, a nested map, naming a record the
\* relation does not point at
AtArtistToken ==
    /\ Iterating
    /\ IsSingleKey
    /\ key_stack = <<"artist">>
    /\ key \in ArtistTokens
    /\ item.d[key].t = "dict"
    /\ ArtistTarget # ArtistOf(heap)
\* the whitelist has one of the entries that grant verb on the relation
Grants(relation, verb) ==
    \/ whitelist.t = "None"
    \/ /\ whitelist.t = "list"
       /\ \E e \in {"", ".$" \o verb, "._" \o verb \o "_"} :
             (relation \o e) \in whitelist.s
\* the two cases of the rule for a single valued relation
SetAllowed ==
    IF ArtistOf(heap) # 0
    THEN /\ Truthy(item.d[key], {"$set", "_set_"})
         /\ \/ Grants("artist", "set")
            \/ Grants("artist", "add") /\ Grants("artist", "remove")
    ELSE /\ Truthy(item.d[key], {"$set", "_set_", "$add", "_add_"})
         /\ Grants("artist", "add") \/ Grants("artist", "set")
OneMoreErrorAt(path) ==
    /\ Len(ErrorsAt(error_dict', path)) = Len(ErrorsAt(error_dict, path)) + 1
    /\ \A p \in DOMAIN error_dict' : p # path => p \in DOMAIN error_dict

\* C11 as stated: the single valued relation is pointed at the other record
\* (existing or new) exactly when, the relation being set, the node has a
\* true set marker and set, or add and remove, are whitelisted, or, the
\* relation being empty, the node has a true set or add marker and add or
\* set is whitelisted; otherwise the relation keeps its value and one error
\* is recorded under the token's path.
C11_SetIffMarkedAndPermitted ==
    [][ AtArtistToken
        => IF SetAllowed
           THEN ArtistOf(heap') = ArtistTarget
           ELSE /\ ArtistOf(heap') = ArtistOf(heap)
                /\ OneMoreErrorAt("artist." \o key) ]_vars

\* C11, amended: outside validation mode the relation is pointed at the
\* other record exactly in the two cases of the rule, a new record needing
\* the create permission as well; no error is recorded then, and in
\* validation mode the relation keeps its value.  In every other case the
\* relation keeps its value and one error is recorded under the token's
\* path.
C11_SetIffMarkedPermittedAndMutating ==
    [][ AtArtistToken
        => IF SetAllowed /\ (key = "$new" => Grants("artist", "create"))
           THEN /\ ArtistOf(heap') = IF validation_mode THEN ArtistOf(heap)
                                     ELSE ArtistTarget
                /\ error_dict' = error_dict
           ELSE /\ ArtistOf(heap') = ArtistOf(heap)
                /\ OneMoreErrorAt("artist." \o key) ]_vars

C11_Witness ==
    /\ pc = "returned"
    /\ whitelist = ListOf({"artist.$remove", "artist.$add"})
    /\ KeysOf(params) = {"artist.$id:artist_id=2.$set",
                         "artist.$id:artist_id=2.$add"}
    /\ params[1][2] = Val("true")
    /\ params[2][2] = Val("true")
    /\ ArtistOf(heap) = ArtistFree

\* the identity tokens of the records attached to the root record
AttachedTrackToken == "$id:track_id=1"
AttachedArtistToken == "$id:artist_id=1"
\* the next node handled is a remove verb under the token of a record that
\* is attached to the relation
AtRemoveOfAttached ==
    /\ Iterating
    /\ IsSingleKey
    /\ key \in {"$remove", "_remove_"}
    /\ \/ /\ key_stack = <<"tracks", AttachedTrackToken>>
          /\ SeqContains(TracksOf(heap), TrackAttached)
       \/ /\ key_stack = <<"artist", AttachedArtistToken>>
          /\ ArtistOf(heap) = ArtistAttached
RemoveValue == item.d[key]
RemovePath == Join(key_stack, ".") \o "." \o key
\* the whitelist has one of the entries that grant verb under a token
GrantsUnder(relation, token, verb) ==
    \/ whitelist.t = "None"
    \/ /\ whitelist.t = "list"
       /\ \E prefix \in {relation, relation \o "." \o token} :
             \E e \in {"", ".$" \o verb, "._" \o verb \o "_"} :
                (prefix \o e) \in whitelist.s
\* the attached record has left its relation and nothing else has
Removed(old, new) ==
    IF key_stack[1] = "tracks"
    THEN /\ TracksOf(new) =
              SelectSeq(TracksOf(old), LAMBDA o : o # TrackAttached)
         /\ ArtistOf(new) = ArtistOf(old)
    ELSE /\ ArtistOf(new) = 0
         /\ TracksOf(new) = TracksOf(old)
Kept(old, new) ==
    TracksOf(new) = TracksOf(old) /\ ArtistOf(new) = ArtistOf(old)

\* C12 as stated: a true remove verb under the token of an attached record
\* takes the record out of its relation (None for a single valued relation,
\* that one member for a list) when remove is whitelisted, and leaves the
\* relation alone with an error when it is not; a false remove verb leaves
\* the relation alone without an error.
C12_RemoveIffTrueAndPermitted ==
    [][ AtRemoveOfAttached
        => CASE Truthy(item, {key}) ->
                  IF GrantsUnder(key_stack[1], "$id", "remove")
                  THEN Removed(heap, heap')
                  ELSE Kept(heap, heap') /\ OneMoreErrorAt(RemovePath)
             [] RemoveValue = Val("false") ->
                  Kept(heap, heap') /\ error_dict' = error_dict
             [] OTHER -> TRUE ]_vars

\* C12, amended: the same outside validation mode; in validation mode a
\* true and whitelisted remove verb leaves the relation alone, and records
\* no error.
C12_RemoveIffTruePermittedAndMutating ==
    [][ AtRemoveOfAttached
        => CASE Truthy(item, {key}) ->
                  IF GrantsUnder(key_stack[1], "$id", "remove")
                  THEN /\ IF validation_mode THEN Kept(heap, heap')
                          ELSE Removed(heap, heap')
                       /\ error_dict' = error_dict
                  ELSE Kept(heap, heap') /\ OneMoreErrorAt(RemovePath)
             [] RemoveValue = Val("false") ->
                  Kept(heap, heap') /\ error_dict' = error_dict
             [] OTHER -> TRUE ]_vars

C12_Witness ==
    /\ pc = "returned"
    /\ whitelist = ListOf({"tracks.$remove"})
    /\ KeysOf(params) = {"tracks.$id:track_id=1.$remove"}
    /\ params[1][2] = Val("true")
    /\ TracksOf(heap) = <<TrackOther>>

\* the identity tokens that match no attached record: a stored record
\* outside the relation, or no record at all
UnattachedTokens ==
    [tracks |-> {"$id:track_id=2", "$id:track_id=9"},
     artist |-> {"$id:artist_id=2"}]
\* the node of the token has no add or set marker
Unmarked(token_path) ==
    \A k \in KeysOf(params) :
        ParentPath(k) = token_path
        => ~(_is_add_key(LastSegment(k)) \/ _is_set_key(LastSegment(k)))
\* the next node handled is a true remove verb under such a token
AtRemoveOfUnattached ==
    /\ Iterating
    /\ IsSingleKey
    /\ key \in {"$remove", "_remove_"}
    /\ Truthy(item, {key})
    /\ Len(key_stack) = 2
    /\ key_stack[1] \in DOMAIN UnattachedTokens
    /\ key_stack[2] \in UnattachedTokens[key_stack[1]]
    /\ Unmarked(Join(key_stack, "."))

\* C13: a true remove verb under an identity token that matches no attached
\* record removes nothing: the relation, single valued or list valued,
\* keeps its content, the run goes on, and an error is aggregated for the
\* path (under the verb or under its token), so that the run ends with the
\* error map and with no other failure.
C13_RemoveOfUnattachedRemovesNothing ==
    [][ AtRemoveOfUnattached
        => /\ Kept(heap, heap')
           /\ pc' = "walk"
           /\ Reported(error_dict', RemovePath) ]_vars

(***************************************************************************)
(* Claims about the permission asked for a path (checked under SpecPure).  *)
(***************************************************************************)
PermissionDone == probe_out.t = "permission"
\* the probe is a relation or a token directly under it
RelationOf(shape) == shape[1].s
TokenPathUnderRelation(shape) ==
    \/ Len(shape) = 1
    \/ Len(shape) = 2 /\ shape[2].k \in {"id", "new"}

\* C14: when the whitelist contains the bare name of a relation, each of
\* the verbs create, add, remove and set is granted on the relation, asked
\* for the relation itself or for an identity token or new token under it.
C14_BareNameGrantsAllVerbs ==
    (/\ PermissionDone
     /\ TokenPathUnderRelation(probe.shape)
     /\ RelationOf(probe.shape) \in probe.W
     /\ probe.verb \in {"create", "add", "remove", "set"})
    => probe_out.granted

C14_Witness ==
    /\ PermissionDone
    /\ probe.W = {"tracks"}
    /\ probe.verb = "remove"
    /\ probe_out.name_stack = <<"tracks", "$id:track_id=2">>
    /\ probe_out.granted

\* C19: two paths that differ only in the field values of their identity
\* tokens or in the labels of their new tokens normalise to the same
\* whitelist name and get the same permission, for every whitelist (None
\* included) and every verb.
C19_PermissionIgnoresTokenValues ==
    PermissionDone =>
      /\ probe_out.name = probe_out.other_name
      /\ probe_out.granted = probe_out.other_granted
      /\ probe_out.granted_none = probe_out.other_granted_none

C19_Witness ==
    /\ PermissionDone
    /\ probe.W = {"tracks.$id.name"}
    /\ probe.verb = ""
    /\ probe_out.name_stack = <<"tracks", "$id:track_id=1", "name">>
    /\ probe_out.other_stack = <<"tracks", "$id:track_id=2", "name">>
    /\ probe_out.granted
    /\ probe_out.other_granted

(***************************************************************************)
(* Properties of the walk: scalar attributes.                              *)
(***************************************************************************)
\* the next node handled is a column of the record in scope
AtScalar ==
    /\ Iterating
    /\ IsSingleKey
    /\ IsPlain(key)
    /\ parent.t = "obj"
    /\ key \in AttrsOfKind(heap[parent.id].cls, "column")
ScalarPath == Join(Append(key_stack, key), ".")
IsToken(segment) == _is_id_key(segment) \/ _is_new_key(segment)
\* the path with $id and $new for its tokens, and the path without them
NormalisedName(stack) ==
    Join([i \in 1..Len(stack) |->
             IF _is_new_key(stack[i]) THEN "$new"
             ELSE IF _is_id_key(stack[i]) THEN "$id" ELSE stack[i]], ".")
ShortName(stack) == Join(SelectSeq(stack, LAMBDA g : ~IsToken(g)), ".")
ScalarPermitted ==
    \/ whitelist.t = "None"
    \/ /\ whitelist.t = "list"
       /\ {NormalisedName(Append(key_stack, key)),
           ShortName(Append(key_stack, key))} \cap whitelist.s # {}
ColumnType == Schema[heap[parent.id].cls][key].type
Convertible ==
    /\ item.d[key].t = "val"
    /\ ColumnType = "Integer" => IsNumeric(item.d[key].v)
GivenValue ==
    IF ColumnType = "Integer" THEN IntVal(ParseInt(item.d[key].v))
    ELSE StrVal(item.d[key].v)
ColumnOf(hp) == hp[parent.id].cols[key]
NotPermittedError ==
    /\ OneMoreErrorAt(ScalarPath)
    /\ Last(error_dict'[ScalarPath])
         = "You do not have permission to modify this attribute."

\* C15 as stated: a scalar column is assigned the given value exactly when
\* the whitelist is None or holds the normalised name of the path or its
\* short name; otherwise it keeps its value and the 'not permitted to
\* modify' error is recorded for the path.
C15_ScalarWrittenIffPermitted ==
    [][ AtScalar
        => IF ScalarPermitted
           THEN Convertible /\ ColumnOf(heap') = GivenValue
           ELSE ColumnOf(heap') = ColumnOf(heap) /\ NotPermittedError ]_vars

\* C15, amended: a scalar column is assigned the given value exactly when
\* the whitelist is None or holds the normalised name of the path or its
\* short name, the value converts to the type of the column and the run is
\* not in validation mode.  A permitted value that does not convert leaves
\* the column alone with one error for the path, a permitted value in
\* validation mode leaves it alone without an error, and a path that is not
\* permitted leaves it alone with the 'not permitted to modify' error.
C15_ScalarWrittenIffPermittedConvertibleAndMutating ==
    [][ AtScalar
        => IF ~ScalarPermitted
           THEN ColumnOf(heap') = ColumnOf(heap) /\ NotPermittedError
           ELSE IF ~Convertible
           THEN ColumnOf(heap') = ColumnOf(heap) /\ OneMoreErrorAt(ScalarPath)
           ELSE /\ ColumnOf(heap') = IF validation_mode THEN ColumnOf(heap)
                                     ELSE GivenValue
                /\ error_dict' = error_dict ]_vars

\* a whitelist that names the relation alone: the track is not renamed
C15_Witness ==
    /\ pc = "raised"
    /\ whitelist = ListOf({"tracks"})
    /\ KeysOf(params) = {"tracks.$id:track_id=1.name"}
    /\ DOMAIN exc.d = {"tracks.$id:track_id=1.name"}
    /\ heap[TrackAttached].cols.name = StrVal("One")

(***************************************************************************)
(* Properties of the walk: raw values and missing tokens.                  *)
(***************************************************************************)
RootRelations == AttrsOfKind(RootClass, "relationship")
\* the next node handled stands where a relation of the root record does:
\* its name, or an identity token or new token under it
AtRelationPosition ==
    /\ Iterating
    /\ IsSingleKey
    /\ \/ key_stack = <<>> /\ key \in RootRelations
       \/ /\ Len(key_stack) = 1
          /\ key_stack[1] \in RootRelations
          /\ IsToken(key)

AtScalarUnderArtist ==
    /\ Iterating
    /\ IsSingleKey
    /\ key_stack = <<"artist">>
    /\ key \in AttrsOfKind("Artist", "column")

\* C17: a scalar field directly under a single valued relation, with no
\* identity or new token in between, is rejected whether the relation is
\* set or not: one error is recorded for the path, no Artist record is
\* modified and the relation is unchanged.
C17_ScalarUnderRelationWithoutTokenRejected ==
    [][ AtScalarUnderArtist
        => /\ OneMoreErrorAt(ScalarPath)
           /\ Kept(heap, heap')
           /\ Len(heap') = Len(heap)
           /\ \A o \in 1..Len(heap) :
                 heap[o].cls = "Artist" => heap'[o] = heap[o] ]_vars

C17_Witness ==
    /\ pc = "raised"
    /\ ~validation_mode
    /\ KeysOf(params) = {"artist.name"}
    /\ DOMAIN exc.d = {"artist.name"}
    /\ ArtistOf(heap) = ArtistAttached
    /\ heap[ArtistAttached].cols.name = StrVal("AC/DC")

(***************************************************************************)
(* Properties of the walk: how a run ends.                                 *)
(***************************************************************************)
\* C18: when the walk is finished the call raises one exception that
\* carries every entry of the error map if the map is not empty, and
\* otherwise returns the root record, for update_resource as for
\* create_resource.
C18_RaisesErrorMapOrReturnsRoot ==
    Finished =>
      IF error_dict # <<>>
      THEN pc = "raised" /\ exc = [t |-> "errors", d |-> error_dict]
      ELSE pc = "returned" /\ return_value = ObjRef(instance)

(***************************************************************************)
(* Claims about get_primary_key_dict (checked under SpecPure).             *)
(***************************************************************************)
PrimaryKeyDone == probe_out.t = "primary_key"
NumberOf(s, c) == Cardinality({ i \in 1..Len(s) : Chr(s, i) = c })
IsHyphenForm(s) == SubSeq(s, 1, 3) = "id-"
\* what follows the prefix "id-" or "$id:"
IdBody(s) == IF IsHyphenForm(s) THEN SubSeq(s, 4, Len(s))
             ELSE SubSeq(s, 5, Len(s))
\* the part of a pair before its "=", and the part after it
NameOfPair(p) == SubSeq(p, 1, (CHOOSE i \in 1..Len(p) : Chr(p, i) = "=") - 1)
ValueOfPair(p) ==
    SubSeq(p, (CHOOSE i \in 1..Len(p) : Chr(p, i) = "=") + 1, Len(p))
Malformed(s) ==
    IF IsHyphenForm(s)
    THEN (NumberOf(IdBody(s), "-") + 1) % 2 = 1
    ELSE \E p \in { Split(IdBody(s), ":")[i] :
                      i \in 1..Len(Split(IdBody(s), ":")) } :
            NumberOf(p, "=") # 1
\* the encoded <<name, value>> pairs of a well formed token, in order
EncodedPairs(s) ==
    IF IsHyphenForm(s)
    THEN LET tokens == Split(IdBody(s), "-")
         IN [i \in 1..(Len(tokens) \div 2) |->
                <<tokens[2 * i - 1], tokens[2 * i]>>]
    ELSE LET parts == Split(IdBody(s), ":")
         IN [i \in 1..Len(parts) |->
                <<NameOfPair(parts[i]), ValueOfPair(parts[i])>>]
\* the mapping of a sequence of pairs, a later pair of a name replacing an
\* earlier one
MappingOf(pairs) ==
    [n \in { pairs[i][1] : i \in 1..Len(pairs) } |->
        pairs[CHOOSE i \in 1..Len(pairs) :
                 /\ pairs[i][1] = n
                 /\ \A j \in (i + 1)..Len(pairs) : pairs[j][1] # n][2]]

\* C20: on a segment that _is_id_key accepts, get_primary_key_dict fails
\* with the malformed identity error exactly when the hyphen form has an
\* odd number of tokens after "id-" or the sigil form has a pair (an empty
\* one included) without exactly one "="; otherwise it returns the mapping
\* of the encoded names to their values.  An identity whose names and
\* values hold no separator, encoded in either form, is parsed back to
\* itself.
C20_PrimaryKeyDictParses ==
    PrimaryKeyDone =>
      /\ IF Malformed(probe.id_string)
         THEN ~probe_out.r.ok
         ELSE /\ probe_out.r.ok
              /\ probe_out.r.data = MappingOf(EncodedPairs(probe.id_string))
      /\ probe.encoded.t = "identity"
           => /\ probe_out.r.ok
              /\ probe_out.r.data = MappingOf(probe.encoded.pairs)

C20_Witness ==
    /\ PrimaryKeyDone
    /\ probe.encoded.t = "identity"
    /\ probe.encoded.form = "sigil"
    /\ probe.id_string = "$id:track_id=22:k=1"
    /\ probe_out.r.ok
    /\ probe_out.r.data = [track_id |-> "22", k |-> "1"]


(***************************************************************************)
(* Paging.                                                                 *)
(***************************************************************************)
OffsetLimitDone == probe.fn = "offset_limit" /\ probe_out.t = "offset_limit"

\* a query parameter that is given and is no integer
NotAnInteger(v) == v # NoneVal /\ Len(v.v) > 0 /\ ~IsIntText(v.v)
\* the query parameters without the invalid ones: a non-integer page, offset
\* or limit; a page below 1; a page above 1 with neither a page size nor a
\* limit
WithoutInvalid(q, size) ==
    LET l == IF NotAnInteger(q.limit) THEN NoneVal ELSE q.limit
        o == IF NotAnInteger(q.offset) THEN NoneVal ELSE q.offset
        p == IF q.page = NoneVal THEN NoneVal
             ELSE IF ~IsIntText(q.page.v) THEN NoneVal
             ELSE IF IntOfText(q.page.v) < 1 THEN NoneVal
             ELSE IF /\ IntOfText(q.page.v) > 1
                     /\ size = NoneVal
                     /\ (l = NoneVal \/ Len(l.v) = 0)
                  THEN NoneVal
             ELSE q.page
    IN [page |-> p, offset |-> o, limit |-> l]

\* C21: with strict=False parse_offset_limit never raises: it returns the
\* OffsetLimitInfo of the query parameters without the invalid ones
C21_NonStrictNeverRaises ==
    OffsetLimitDone /\ ~probe.strict =>
        /\ probe_out.r.t = "OffsetLimitInfo"
        /\ probe_out.r = parse_offset_limit(
                             WithoutInvalid(probe.query_params,
                                            probe.page_max_size),
                             probe.page_max_size, FALSE, probe.python3)

CollectionDone == probe.fn = "get_collection" /\ probe_out.t = "get_collection"

\* C22: with an integer page_max_size get_collection returns at most
\* page_max_size records for every limit, None included: in strict mode a
\* larger limit is refused, otherwise the limit applied is at most the page
\* size
C22_NeverMoreThanPageMaxSize ==
    CollectionDone /\ probe.page_max_size.t = "int" =>
        /\ probe_out.r.t = "records" =>
               probe_out.r.n <= probe.page_max_size.n
        /\ probe_out.r.t = "records" /\ ~probe.strict =>
               /\ probe_out.r.limit # NoneVal
               /\ probe_out.r.limit.n <= probe.page_max_size.n
        /\ /\ probe.strict
           /\ IsIntArg(probe.limit)
           /\ IntOfArg(probe.limit) > probe.page_max_size.n
           => probe_out.r.t = "BadRequestException"


(***************************************************************************)
(* The stacks of the walk.                                                 *)
(***************************************************************************)
\* the update tree the walk starts from
UpdateTree ==
    _split_dict_params(_cleanse_update_params(heap[instance].cls, params))

RECURSIVE SubtreeAt(_, _)
SubtreeAt(tree, path) ==
    IF Len(path) = 0 THEN tree
    ELSE IF tree.t = "dict" /\ Head(path) \in DOMAIN tree.d
         THEN SubtreeAt(tree.d[Head(path)], Tail(path))
         ELSE [t |-> "missing"]

\* the POP markers waiting on a stack of updates
PopMarks(stack) == Len(SelectSeq(stack, LAMBDA u : u = PopMark))

\* key_stack is the path of the node on top of the update stack
OnCurrentPath ==
    item.t = "dict" =>
        \A k \in DOMAIN item.d :
            SubtreeAt(UpdateTree, Append(key_stack, k)) = item.d[k]

\* a step of the loop pushes a subtree with one marker and one entry on
\* each stack, or pops one entry from each stack for one marker, or leaves
\* the depths alone
PushesAndPopsMatch ==
    pc = "walk" /\ pc' = "walk" =>
        /\ Len(key_stack') > Len(key_stack) =>
               /\ key_stack' = Append(key_stack, key)
               /\ c_key_stack' = Append(c_key_stack, key)
               /\ Front(attr_stack') = attr_stack
               /\ PopMarks(update_stack') = PopMarks(update_stack) + 1
        /\ item = PopMark =>
               /\ update_stack' = Front(update_stack)
               /\ key_stack' = Front(key_stack)
               /\ c_key_stack' = Front(c_key_stack)
               /\ attr_stack' = Front(attr_stack)
        /\ item # PopMark /\ Len(key_stack') = Len(key_stack) =>
               /\ key_stack' = key_stack
               /\ c_key_stack' = c_key_stack
               /\ Len(attr_stack') = Len(attr_stack)
               /\ PopMarks(update_stack') = PopMarks(update_stack)
        /\ Len(key_stack') < Len(key_stack) => item = PopMark

\* C23 as stated: at the start of every iteration attr_stack, key_stack and
\* c_key_stack have the same depth, the length of the current path
C23_StacksOfEqualDepth ==
    Iterating =>
        /\ Len(attr_stack) = Len(key_stack)
        /\ Len(c_key_stack) = Len(key_stack)
        /\ OnCurrentPath

\* C23, amended: at the start of every iteration key_stack and c_key_stack
\* have the same depth, the length of the current path, and attr_stack, which
\* holds the root record below the objects of the path, is one deeper; every
\* push of a subtree is matched by one POP marker on the update stack, which
\* later pops one entry from each of the three stacks
C23_StacksAlignedAndPopsMatched ==
    /\ [](Iterating =>
            /\ Len(c_key_stack) = Len(key_stack)
            /\ Len(attr_stack) = Len(key_stack) + 1
            /\ attr_stack[1] = ObjRef(instance)
            /\ PopMarks(update_stack) = Len(key_stack)
            /\ OnCurrentPath)
    /\ [][PushesAndPopsMatch]_vars

\* the walk is back under a relation after the subtree of a token was popped
C23_Witness ==
    /\ Iterating
    /\ Len(key_stack) = 1
    /\ Len(attr_stack) = 2
    /\ \E p \in Handled : Len(Split(p, ".")) = 3


(***************************************************************************)
(* Identity tokens that name no record.                                    *)
(***************************************************************************)
\* the walk is at an identity token, under a relation, that holds a subtree
AtIdentityToken ==
    /\ Iterating
    /\ IsSingleKey
    /\ Resolved.ok
    /\ _is_id_key(key)
    /\ ~(_is_add_key(key) \/ _is_set_key(key))
    /\ ~_is_remove_key(key)
    /\ ~_is_new_key(key)
    /\ Len(class_attrs) >= 2
    /\ Len(attr_stack) >= 2
    /\ HasProperty(FromEnd(class_attrs, 2))
    /\ IsDict(item.d[key])

TokenTarget == Prop(FromEnd(class_attrs, 2)).target
TokenFailsToParse == ~get_primary_key_dict(key).ok
\* the stored records of a class that a token names
TokenRows(token, cls) ==
    LET filtered == _filter_by_primary_key(
                        cls, get_alchemy_primary_keys(cls),
                        get_primary_key_dict(token).data, token, <<>>)
    IN IF ~filtered.ok THEN {}
       ELSE FindByPrimaryKey(heap, cls, filtered.filter)
AtUnresolvedToken ==
    AtIdentityToken /\ (TokenFailsToParse \/ TokenRows(key, TokenTarget) = {})

\* the walk is below an identity token for which a placeholder was pushed
UnderPlaceholder ==
    /\ Iterating
    /\ \E i \in 1..Len(key_stack) :
          /\ _is_id_key(key_stack[i])
          /\ attr_stack[i + 1].t = "obj"
          /\ ~heap[attr_stack[i + 1].id].stored
          /\ TokenRows(key_stack[i], heap[attr_stack[i + 1].id].cls) = {}
StoredUnchanged ==
    \A o \in 1..Len(heap) : heap[o].stored => heap'[o] = heap[o]

\* C24: an identity token that fails to parse or names no record gets one
\* error under its path and the walk descends into its subtree with a
\* placeholder of the target type on the object stack; no step made below
\* the placeholder changes a stored record
C24_UnresolvedTokenDescendsWithPlaceholder ==
    [][ /\ AtUnresolvedToken =>
              /\ OneMoreErrorAt(full_attr_name)
              /\ key_stack' = Append(key_stack, key)
              /\ update_stack' = Front(update_stack) \o <<PopMark, item.d[key]>>
              /\ Len(heap') = Len(heap) + 1
              /\ heap'[Len(heap')] = NewInstance(TokenTarget)
              /\ attr_stack' = Append(attr_stack, ObjRef(Len(heap')))
              /\ StoredUnchanged
        /\ UnderPlaceholder => StoredUnchanged ]_vars


(***************************************************************************)
(* Identity tokens of records that are attached already.                   *)
(***************************************************************************)
\* the record is in the relation of the owner
InRelation(hp, owner, relation, o) ==
    IF relation \in ListRels(hp[owner].cls)
    THEN SeqContains(hp[owner].many[relation], o)
    ELSE hp[owner].one[relation] = o

\* the stored records a token names that are in the relation it stands under
AttachedRows(stack, token, owner) ==
    { o \in TokenRows(token, Schema[heap[owner].cls][Last(stack)].target) :
        InRelation(heap, owner, Last(stack), o) }

AtAttachedToken ==
    /\ AtIdentityToken
    /\ ~TokenFailsToParse
    /\ FromEnd(attr_stack, 2).t = "obj"
    /\ AttachedRows(key_stack, key, FromEnd(attr_stack, 2).id) # {}

\* the walk is at a column of the record of a token, a record that was in
\* the relation before the token: its node carries no add or set marker
AtScalarUnderAttachedToken ==
    /\ AtScalar
    /\ Len(key_stack) >= 2
    /\ _is_id_key(Last(key_stack))
    /\ FromEnd(attr_stack, 3).t = "obj"
    /\ parent.id \in AttachedRows(Front(key_stack), Last(key_stack),
                                  FromEnd(attr_stack, 3).id)
    /\ ~HasMarker(SubtreeAt(UpdateTree, key_stack),
                  {"$add", "_add_", "$set", "_set_"})

OthersUnchanged ==
    /\ Len(heap') = Len(heap)
    /\ \A o \in 1..Len(heap) : o # parent.id => heap'[o] = heap[o]
    /\ heap'[parent.id].one = heap[parent.id].one
    /\ heap'[parent.id].many = heap[parent.id].many

\* the token step for an attached record: no error, nothing changed, the
\* record comes into scope
AttachedTokenAccepted ==
    AtAttachedToken =>
        /\ error_dict' = error_dict
        /\ heap' = heap
        /\ \E o \in AttachedRows(key_stack, key, FromEnd(attr_stack, 2).id) :
              attr_stack' = Append(attr_stack, ObjRef(o))
        /\ update_stack' = Front(update_stack) \o <<PopMark, item.d[key]>>

\* C25 as stated: a token of a record already in the relation needs no
\* marker and no permission: no error for the token under any whitelist,
\* the relation keeps its members, and the scalar updates nested under the
\* token are applied to that record
C25_AttachedTokenUpdatesRecord ==
    [][ /\ AttachedTokenAccepted
        /\ AtScalarUnderAttachedToken =>
              /\ Convertible
              /\ ColumnOf(heap') = GivenValue
              /\ OthersUnchanged ]_vars

\* C25, amended: no error for the token under any whitelist, the relation
\* keeps its members, and the scalar updates nested under the token are
\* directed at that record: each is written to it when the whitelist
\* permits the scalar path, the value converts and the run is not in
\* validation mode, is left out otherwise, and changes no other record
C25_AttachedTokenScopesRecord ==
    [][ /\ AttachedTokenAccepted
        /\ AtScalarUnderAttachedToken =>
              /\ ColumnOf(heap') =
                     IF ScalarPermitted /\ Convertible /\ ~validation_mode
                     THEN GivenValue ELSE ColumnOf(heap)
              /\ ScalarPermitted /\ Convertible => error_dict' = error_dict
              /\ OthersUnchanged ]_vars

\* a whitelist without add, set or the relation: the attached track is
\* renamed and the tracks of the album are the same
C25_Witness ==
    /\ pc = "returned"
    /\ whitelist = ListOf({"tracks.$id.name", "tracks.$new"})
    /\ KeysOf(params) = {"tracks.$id:track_id=1.name"}
    /\ heap[TrackAttached].cols.name = StrVal("N")
    /\ TracksOf(heap) = <<TrackAttached, TrackOther>>


(***************************************************************************)
(* Termination of the walk.                                                *)
(***************************************************************************)
\* `while update_stack:` and the calls around it: a step can be made until
\* the run has returned, raised or crashed
LoopCanStep == pc \in {"start", "walk"}
\* the interpreter keeps running the code: weak fairness of Next, WF_vars(Next),
\* written out with LoopCanStep for ENABLED <<Next>>_vars
LoopIsRun == []<>(~LoopCanStep) \/ []<><<Next>>_vars
SpecLive == Init /\ [][Next]_vars /\ LoopIsRun

NoNodeTwice ==
    \A i, j \in 1..Len(processed) : processed[i] = processed[j] => i = j
Unwound ==
    /\ attr_stack = <<ObjRef(instance)>>
    /\ key_stack = <<>>
    /\ c_key_stack = <<>>

\* under SpecLive every run reaches a state where the loop makes no step
EveryRunStops == <>(~LoopCanStep)

\* C26: every run of _set_record_attrs ends by an empty update stack or by
\* the stack limit abort, so a run that can make no further step has
\* returned, raised its collected errors or aborted on the stack limit; no
\* node of the update tree is popped twice, and when the update stack is
\* empty the object stack holds the root record alone and the key stacks
\* are empty
C26_TerminatesWithStacksUnwound ==
    /\ ~LoopCanStep => pc \in {"returned", "raised", "too_complex"}
    /\ NoNodeTwice
    /\ pc = "walk" /\ update_stack = <<>> => Unwound


(***************************************************************************)
(* A validation run followed by the mutating run.                          *)
(***************************************************************************)
\* the caller validates first: the arguments of Runs with
\* validation_mode=True, the rows of the store kept for the second call
InitTwice ==
    /\ \E r \in Runs :
          /\ params \in r.maps
          /\ whitelist = r.whitelist
          /\ add_to_session = r.add_to_session
          /\ stack_size_limit = r.stack_size_limit
          /\ entry = r.entry
          /\ heap = Rows(r.artist0)
    /\ validation_mode = TRUE
    /\ instance = IF entry = "update" THEN AlbumRow ELSE 0
    /\ pc = "start"
    /\ update_stack = <<>>
    /\ key_stack = <<>>
    /\ c_key_stack = <<>>
    /\ attr_stack = <<>>
    /\ error_dict = <<>>
    /\ session = <<>>
    /\ exc = NoneVal
    /\ return_value = NoneVal
    /\ processed = <<>>
    /\ probe = [fn |-> "twice", rows |-> heap]
    /\ probe_out = NoResult

Ended == pc \in {"returned", "raised", "too_complex", "crashed"}

\* the same call with validation_mode=False, on the rows the first call
\* started from; what the first call raised or returned is kept
CallAgain ==
    /\ Ended
    /\ validation_mode
    /\ probe.fn = "twice"
    /\ probe_out = NoResult
    /\ probe_out' = [t |-> "run", pc |-> pc, exc |-> exc]
    /\ validation_mode' = FALSE
    /\ heap' = probe.rows
    /\ instance' = IF entry = "update" THEN AlbumRow ELSE 0
    /\ pc' = "start"
    /\ update_stack' = <<>>
    /\ key_stack' = <<>>
    /\ c_key_stack' = <<>>
    /\ attr_stack' = <<>>
    /\ error_dict' = <<>>
    /\ session' = <<>>
    /\ exc' = NoneVal
    /\ return_value' = NoneVal
    /\ processed' = <<>>
    /\ UNCHANGED <<params, whitelist, add_to_session, stack_size_limit,
                   entry, probe>>

NextTwice ==
    \/ Next
    \/ CallAgain

SpecTwice == InitTwice /\ [][NextTwice]_vars

\* what a call that ended raised: the error map, empty when it returned, or
\* the other exception
Raised(at, raised) ==
    IF at = "returned" THEN [t |-> "errors", d |-> <<>>] ELSE raised

BothEnded == Ended /\ ~validation_mode /\ probe_out.t = "run"

\* C27: the validation run reports exactly the errors of the mutating run
\* made with the same root record, update map and whitelist on the same
\* initial state
C27_ValidationReportsErrorsOfMutatingRun ==
    BothEnded => Raised(pc, exc) = Raised(probe_out.pc, probe_out.exc)


\* the next node handled is a column of Track directly under the relation
\* tracks, no token in between
AtScalarUnderTracks ==
    /\ Iterating
    /\ IsSingleKey
    /\ key_stack = <<"tracks">>
    /\ key \in AttrsOfKind("Track", "column")

\* C28: a scalar field directly under a list valued relation, with no
\* identity or new token in between, modifies no record and no collection
\* object, and an error is recorded for the path
C28_ScalarUnderListWithoutTokenRejected ==
    [][ AtScalarUnderTracks
        => /\ OneMoreErrorAt(Join(Append(key_stack, key), "."))
           /\ heap' = heap ]_vars


(***************************************************************************)
(* What a run may change.                                                  *)
(***************************************************************************)
\* the path of segments names the record: the empty path names the root
\* record, a relation of the root followed by an identity token names the
\* stored records of the target class with that primary key
PathNames(path, o) ==
    \/ Len(path) = 0 /\ o = instance
    \/ /\ Len(path) = 2
       /\ path[1] \in AttrsOfKind(heap[instance].cls, "relationship")
       /\ _is_id_key(path[2])
       /\ get_primary_key_dict(path[2]).ok
       /\ o \in TokenRows(path[2], Schema[heap[instance].cls][path[1]].target)

\* some key of the update map resolves to the column of the record
KeyOfColumn(o, column) ==
    \E k \in KeysOf(params) :
        LET segments == Split(k, ".")
        IN /\ Last(segments) = column
           /\ PathNames(Front(segments), o)

\* some key of the update map has an identity token, a new token or a verb
\* directly under the relation of the record
KeyOfRelation(o, relation) ==
    \E k \in KeysOf(params) :
        LET segments == Split(k, ".")
        IN \E n \in 1..(Len(segments) - 1) :
              /\ segments[n] = relation
              /\ IsToken(segments[n + 1]) \/ IsVerb(segments[n + 1])
              /\ PathNames(SubSeq(segments, 1, n - 1), o)

\* C29: a run of update_resource changes a column of a record only if a key
\* of the update map resolves to that column of that record, and the
\* content of a relation only if a key has an identity token, a new token
\* or a verb directly under that relation of that record; every other
\* column and relation of every record keeps its value
C29_OnlyAddressedAttributesChange ==
    [][ entry = "update" /\ pc = "walk" =>
          \A o \in 1..Len(heap) :
              heap[o].stored =>
                  /\ \A c \in DOMAIN heap[o].cols :
                        heap'[o].cols[c] # heap[o].cols[c] => KeyOfColumn(o, c)
                  /\ \A r \in DOMAIN heap[o].one :
                        heap'[o].one[r] # heap[o].one[r] => KeyOfRelation(o, r)
                  /\ \A r \in DOMAIN heap[o].many :
                        heap'[o].many[r] # heap[o].many[r]
                            => KeyOfRelation(o, r) ]_vars

\* a run that renamed one attached track and nothing else
C29_Witness ==
    /\ pc = "returned"
    /\ entry = "update"
    /\ KeysOf(params) = {"tracks.$id:track_id=1.name"}
    /\ heap[TrackAttached].cols.name = StrVal("N")
    /\ heap[TrackOther].cols.name = StrVal("Three")
    /\ heap[TrackFree].cols.name = StrVal("Two")
    /\ heap[AlbumRow].cols.title = StrVal("Old")
    /\ TracksOf(heap) = <<TrackAttached, TrackOther>>


(***************************************************************************)
(* create_resource and the session.                                        *)
(***************************************************************************)
\* C30: create_resource with validation_mode=True adds no record to the
\* session, the new root record included, whatever add_to_session is; and a
\* run that raises the aggregated errors has not added the root record to
\* the session, in either mode
C30_CreateAddsNothingWhenValidatingOrFailed ==
    entry = "create" =>
        /\ validation_mode => session = <<>>
        /\ pc = "raised" => ~SeqContains(session, instance)

====
